---- MODULE Spec2Model ----
(***************************************************************************)
(* Model of the inference agent: the task pipeline worker (Agent.Run,      *)
(* Agent.processTask, Agent.reportFailure), the HCS handler                *)
(* (Handler.StartSubscription, Handler.processMessage,                     *)
(* Handler.PublishResult), the reconnecting HCS transport                  *)
(* (HCSTransport.runSubscription, HCSTransport.Publish) and the compute    *)
(* broker's provider discovery (broker.ListModels, broker.resolveProvider),*)
(* its session authentication (broker.doWithAuthRetry), the audit          *)
(* publisher's retry loop (publisher.publishWithRetry) and the health      *)
(* loop (Agent.healthLoop, Handler.PublishHealth).                         *)
(* Spec is the agent from its construction, QueueSpec the agent in front   *)
(* of a busy topic, BrokerSpec the broker under concurrent callers,        *)
(* AuthSpec one broker submitting jobs, PublisherSpec one audit publisher, *)
(* HealthSpec the worker and the health loop of a running agent, SeqSpec   *)
(* the two goroutines that publish through one Handler, step by step,      *)
(* PollSpec one broker polling for a job result (broker.GetResult), OpSpec *)
(* the storage client and the minter (client.Upload, minter.Mint).         *)
(***************************************************************************)
EXTENDS Integers, Sequences, FiniteSets, TLC

\* ---------------------------------------------------------------------------
\* Bounds of the model
\* ---------------------------------------------------------------------------
\* number of raw messages the coordinator puts on the task topic
MaxMsgs == 2

\* configured HCSTransportConfig.MaxReconnects (any positive value is kept)
maxReconnects == 1

\* envelopes one Handler numbers in the step-by-step publishing component
MaxSeq == 4

\* ---------------------------------------------------------------------------
\* Program constants
\* ---------------------------------------------------------------------------
\* capacity of Handler.taskCh
TaskQueueCap == 16

\* capacity of the transport's msgCh and errCh
defaultMessageBuffer == 100

AgentID == "agent"

TaskIds == {"t1", "t2"}

NoTask == "none"

\* ---------------------------------------------------------------------------
\* Messages on the task topic
\* ---------------------------------------------------------------------------
MessageTypeTaskAssignment == "task_assignment"

MessageTypeTaskResult == "task_result"

MessageTypeHeartbeat == "heartbeat"

\* A raw topic message: envOK says whether UnmarshalEnvelope succeeds,
\* payloadOK whether the payload unmarshals into a TaskAssignment.
RawMsg(envOK, type, rcpt, payloadOK, task) ==
    [envOK |-> envOK, type |-> type, recipient |-> rcpt,
     payloadOK |-> payloadOK, task |-> task]

\* no message in hand
NoMsg == RawMsg(FALSE, "", "", FALSE, NoTask)

\* the raw messages the coordinator (or anyone else) may put on the topic
RawMessages ==
    { RawMsg(TRUE, MessageTypeTaskAssignment, "", TRUE, "t1"),
      RawMsg(TRUE, MessageTypeTaskAssignment, AgentID, TRUE, "t2"),
      RawMsg(TRUE, MessageTypeTaskAssignment, "other", TRUE, "t1"),
      RawMsg(TRUE, MessageTypeHeartbeat, "", TRUE, "t2"),
      RawMsg(TRUE, MessageTypeTaskAssignment, "", FALSE, "t2"),
      RawMsg(FALSE, MessageTypeTaskAssignment, "", TRUE, "t1") }

\* ---------------------------------------------------------------------------
\* Pipeline stages and states
\* ---------------------------------------------------------------------------
\* the stage calls of processTask, in program order
Stages == <<"SubmitJob", "GetResult", "Upload", "Mint", "AuditPublish", "PublishResult">>

\* the pipeline states, named after the position processTask has reached
PipelineStates ==
    <<"Received", "ComputeSubmitted", "ComputeCompleted", "Stored",
      "Minted", "Audited", "Reported">>

EventTypeTaskReceived == "task_received"

EventTypeJobSubmitted == "job_submitted"

EventTypeJobCompleted == "job_completed"

EventTypeResultStored == "result_stored"

EventTypeINFTMinted == "inft_minted"

EventTypeResultReport == "result_reported"

Range(s) == { s[i] : i \in 1..Len(s) }

\* context.Canceled, as the cause a client returns when ctx.Err() != nil
Canceled == "context canceled"

\* the error a client returns for a failure of its own
ClientErr(stage) == stage \o " failed"

\* ErrPublishFailed, the sentinel PublishResult wraps
ErrPublishFailed == "hcs: message publish failed"

VARIABLES
    cancelled,       \* ctx.Done() has fired
    topic,           \* raw messages on the task topic, oldest first
    \* HCSTransport.runSubscription
    tPc,             \* position of the runSubscription goroutine
    reconnects,      \* loop counter of runSubscription
    attempts,        \* subscribeOnce calls made so far
    subPos,          \* number of topic messages the live subscription delivered
    msgCh,           \* channel of raw messages
    errCh,           \* channel of subscription errors
    chClosed,        \* msgCh and errCh are closed
    \* Handler.StartSubscription
    hPc,             \* position of the StartSubscription goroutine
    hPending,        \* the message whose assignment processMessage is sending
    subResult,       \* what StartSubscription returned
    taskCh,          \* Handler.taskCh
    seqNum,          \* Handler.seqNum
    \* Agent.Run / processTask
    pc,              \* position of the worker
    cur,             \* task being processed
    taskErr,         \* error returned by processTask
    runResult,       \* what Run returned
    completedTasks,
    failedTasks,
    \* history of the current run
    active,          \* runs in progress (dequeue number of each)
    calls,           \* stage calls made in this run: [stage, ok, cause]
    stateLog,        \* pipeline states this run passed through
    audits,          \* audit.Publish calls of this run: [type, task, ok]
    reports,         \* PublishResult calls of this run
    startCounts,     \* <<completedTasks, failedTasks>> when this run was dequeued
    \* history across runs
    dequeued,        \* number of tasks dequeued so far
    finished,        \* number of runs whose processing has finished
    stageCount,      \* per task ID and stage, number of stage calls made
    \* the compute broker's provider discovery
    now,             \* time.Now(), in minutes
    registry,        \* services the serving contract lists, in its order
    endpoint,        \* BrokerConfig.Endpoint ("" when not configured)
    models,          \* broker.models
    modelsTTL,       \* broker.modelsTTL
    rpc,             \* per caller, position in resolveProvider / ListModels
    rop,             \* per caller, the call it made
    rmodel,          \* per caller, the model ID it resolves
    got,             \* per caller, the list its discovery returned
    res,             \* the call that has just returned and what it returned
    disc,            \* per caller, listFromChain calls its call has made
    seen,            \* per caller, services listed during its resolveProvider
    \* the session authentication of SubmitJob
    key,             \* broker.key != nil
    unix,            \* time.Now().Unix()
    apc,             \* position of SubmitJob / doWithAuthRetry
    token,           \* the Bearer token of the request in hand
    sent,            \* client.Do calls of this SubmitJob: [token, resp]
    submitOut,       \* what SubmitJob returned
    \* the audit publisher
    cfgMaxRetries,   \* PublisherConfig.MaxRetries as passed to NewPublisher
    dpc,             \* position of Publish / publishWithRetry
    attempt,         \* loop variable of publishWithRetry
    lastErr,         \* lastErr of publishWithRetry
    tries,           \* how the submitToDA calls of this Publish ended
    accepted,        \* transactions of this Publish mined successfully
    pubOut,          \* what Publish returned
    \* Agent.healthLoop
    hlPc,            \* position of the healthLoop goroutine
    beats,           \* PublishHealth calls made so far
    \* the two publishing goroutines of one Handler, step by step
    ppc,             \* per goroutine, position in PublishResult / PublishHealth
    pseq,            \* per goroutine, the sequence number of its envelope
    outbox,          \* envelopes handed to Transport.Publish, in call order
    \* broker.GetResult
    gpc,             \* position of GetResult
    gjob,            \* the job ID it was called with
    results,         \* job IDs broker.results holds a result for
    elapsed,         \* poll intervals elapsed since GetResult began to poll
    gout,            \* what GetResult returned
    \* client.Upload and minter.Mint
    nodeEndpoint,    \* a storage node endpoint is configured
    cpc,             \* position of the Upload or Mint call
    creq,            \* its arguments
    steps,           \* the steps it has performed: [step, ok]
    cret,            \* what it returned
    ids              \* per uploaded data, the content IDs Upload returned

vars == <<cancelled, topic, tPc, reconnects, attempts, subPos, msgCh, errCh,
          chClosed,
          hPc, hPending, subResult, taskCh, seqNum, pc, cur, taskErr,
          runResult, completedTasks, failedTasks, active, calls, stateLog,
          audits, reports, startCounts, dequeued, finished, stageCount,
          now, registry, endpoint, models, modelsTTL, rpc, rop, rmodel, got,
          res, disc, seen, key, unix, apc, token, sent, submitOut,
          cfgMaxRetries, dpc, attempt, lastErr, tries, accepted, pubOut,
          hlPc, beats, ppc, pseq, outbox, gpc, gjob, results, elapsed, gout,
          nodeEndpoint, cpc, creq, steps, cret, ids>>

authVars == <<key, unix, apc, token, sent, submitOut>>

daVars == <<cfgMaxRetries, dpc, attempt, lastErr, tries, accepted, pubOut>>

healthVars == <<hlPc, beats>>

seqVars == <<ppc, pseq, outbox>>

pollVars == <<gpc, gjob, results, elapsed, gout>>

opVars == <<nodeEndpoint, cpc, creq, steps, cret, ids>>

stepVars == <<seqVars, pollVars, opVars>>

clientVars == <<authVars, daVars, healthVars, stepVars>>

brokerVars == <<now, registry, endpoint, models, modelsTTL, rpc, rop, rmodel,
                got, res, disc, seen>>

agentVars == <<topic, tPc, reconnects, attempts, subPos, msgCh, errCh,
               chClosed, hPc, hPending, subResult, taskCh, seqNum, pc, cur,
               taskErr, runResult, completedTasks, failedTasks, active,
               calls, stateLog, audits, reports, startCounts, dequeued,
               finished, stageCount>>

transportVars == <<tPc, reconnects, attempts, subPos, msgCh, errCh, chClosed>>

handlerVars == <<hPc, hPending, subResult>>

runHist == <<active, calls, stateLog, audits, reports, startCounts>>

workerVars == <<pc, cur, taskErr, runResult, completedTasks, failedTasks,
                runHist, dequeued, finished, stageCount, seqNum>>

\* ---------------------------------------------------------------------------
\* The compute broker's provider discovery: data
\* ---------------------------------------------------------------------------
\* modelCacheDuration, in minutes
modelCacheDuration == 5

\* the clock runs from 0 to MaxTime minutes
MaxTime == 6

\* goroutines that call the broker
Callers == {"c1", "c2"}

ModelIDs == {"m1", "m2"}

\* a Model, as far as resolveProvider looks at it
Model(id, url) == [id |-> id, url |-> url]

\* the contents the service registry can have, in listing order
RegistryStates ==
    { <<>>,
      <<Model("m1", "u1")>>,
      <<Model("m1", ""), Model("m1", "u2"), Model("m2", "u3")>> }

\* a configured BrokerConfig.Endpoint
FallbackEndpoint == "http://fallback"

\* broker.models == nil (an empty list is never cached)
NilModels == <<>>

ErrNoModels == "compute: no models available"

ErrBrokerDown == "compute: broker is unreachable"

\* what a call has obtained so far: the list in hand, where it came from,
\* and how its listFromChain and listFromHTTP calls ended
NoList == [list |-> <<>>, via |-> "none", chain |-> "none", http |-> "none"]

\* what a call returned: a provider URL, the fallback endpoint, a list
\* (ListModels) or an error, with the list it was taken from
Result(kind, url, list, err, g) ==
    [kind |-> kind, url |-> url, list |-> list, err |-> err, via |-> g.via,
     chain |-> g.chain, http |-> g.http]

\* the call that has just returned, what it returned, and the provider set
\* that was cached when its last step began: none
NoResult ==
    [call |-> [caller |-> "none", op |-> "none", model |-> "", disc |-> 0,
               seen |-> {}],
     out |-> Result("none", "", <<>>, "", NoList),
     old |-> <<>>]

\* NewBroker: nothing cached, nobody calling
NewBroker ==
    /\ now = 0
    /\ models = NilModels
    /\ modelsTTL = 0
    /\ rpc = [r \in Callers |-> "idle"]
    /\ rop = [r \in Callers |-> "none"]
    /\ rmodel = [r \in Callers |-> ""]
    /\ got = [r \in Callers |-> NoList]
    /\ res = NoResult
    /\ disc = [r \in Callers |-> 0]
    /\ seen = [r \in Callers |-> {}]

\* ---------------------------------------------------------------------------
\* The session authentication of SubmitJob: data
\* ---------------------------------------------------------------------------
\* the clock runs from 0 to MaxUnix seconds
MaxUnix == 2

StatusOK == "200 OK"

StatusUnauthorized == "401 Unauthorized"

StatusInternalServerError == "500 Internal Server Error"

\* the statuses a provider answers with
Statuses == {StatusOK, StatusUnauthorized, StatusInternalServerError}

\* client.Do returned an error instead of a response
TransportErr == "transport error"

ErrJobFailed == "compute: job execution failed"

\* crypto.Keccak256Hash of the message
Keccak256Hash(msg) == <<"keccak256", msg>>

\* crypto.Sign with the broker's key: the signature is a function of the
\* hash (the nonce is derived from key and hash)
Sign(hash) == <<"sig", hash>>

\* no Authorization header
NoToken == [msg |-> -1, sig |-> <<>>]

\* SubmitJob has not returned
NoOut == [kind |-> "none", err |-> ""]

\* SubmitJob returned the job ID
JobOut == [kind |-> "job", err |-> ""]

\* SubmitJob returned err
ErrOut(err) == [kind |-> "error", err |-> err]

\* the error of SubmitJob for a response whose status is not 200
StatusErr(resp) == "compute: provider returned status " \o resp

\* the error of doWithAuthRetry when its first client.Do fails, whatever the
\* failure (a done context included)
ErrProviderRequest == "compute: provider request failed: " \o ErrBrokerDown

\* the error of doWithAuthRetry when its second client.Do fails
ErrRetryRequest == "compute: retry request failed: " \o ErrBrokerDown

\* a broker that is not submitting
SessionIdle ==
    /\ unix = 0
    /\ apc = "idle"
    /\ token = NoToken
    /\ sent = <<>>
    /\ submitOut = NoOut

\* ---------------------------------------------------------------------------
\* The audit publisher: data
\* ---------------------------------------------------------------------------
\* the MaxRetries NewPublisher puts in place of 0
defaultMaxRetries == 3

\* the configurations tried: MaxRetries from 0 to MaxConfigured
MaxConfigured == 2

\* the ways submitToDA ends
SubmitOK == "ok"

\* contract.Transact failed: no transaction was sent
SubmitTxErr == "submit tx"

\* bind.WaitMined failed: the transaction was sent
WaitErr == "wait for tx"

\* the transaction was mined with a failed status
ErrSubmissionFailed == "da: submission failed"

\* the transaction was mined successfully, its receipt has no DataSubmit log
NoEventErr == "da: no DataSubmit event"

\* Publish has not returned
NoPub == [kind |-> "none", at |-> "", count |-> 0, last |-> ""]

\* Publish returned the submission ID
PubOK == [kind |-> "ok", at |-> "", count |-> 0, last |-> ""]

\* Publish returned an error wrapping ctx.Err()
PubCancelled(at) == [kind |-> "cancelled", at |-> at, count |-> 0, last |-> ""]

\* Publish returned "all <count> attempts failed: <last>"
PubExhausted(count, last) ==
    [kind |-> "exhausted", at |-> "", count |-> count, last |-> last]

\* a publisher that is not publishing
PublisherIdle ==
    /\ dpc = "idle"
    /\ attempt = 0
    /\ lastErr = ""
    /\ tries = <<>>
    /\ accepted = 0
    /\ pubOut = NoPub

\* ---------------------------------------------------------------------------
\* Agent.healthLoop: data
\* ---------------------------------------------------------------------------
\* the model follows the health loop for its first MaxBeats ticks
MaxBeats == 2

\* Run has not started the health loop
HealthOff ==
    /\ hlPc = "off"
    /\ beats = <<>>

\* ---------------------------------------------------------------------------
\* PublishResult / PublishHealth step by step, broker.GetResult,
\* client.Upload and minter.Mint: data
\* ---------------------------------------------------------------------------
\* the goroutines that publish through the Handler
Publishers == {"worker", "healthLoop"}

JobIDs == {"j1", "j2"}

\* cfg.PollTimeout counted in poll intervals
PollTicks == 2

\* what GetResult returns
JobResult(jobID) == "result of " \o jobID

ErrCancelledOnEntry == "compute: context cancelled"

ErrCancelledPolling == "compute: context cancelled polling job"

ErrPollTimeout == "compute: timeout waiting for job"

\* byte strings handed to Upload, and the metadata given with them
Blobs == {"b1", "b2"}

Metas == {"m1", "m2"}

\* lengths of the configured encryption key
KeyLens == {16, 32}

\* encryptMetadata wants an AES-256 key
KeySize == 32

\* token IDs a Transfer event can carry
TokenIDs == {1, 2}

\* sha256.Sum256(data)
Sum256(data) == <<"sha256", data>>

\* common.Bytes2Hex(root[:])
Bytes2Hex(root) == <<"hex", root>>

\* tokenID.String()
TokenString(n) == <<"dec", n>>

ErrUploadCancelled == "storage: context cancelled before upload"

ErrFlowOpts == "storage: create transact opts"

ErrFlowSubmit == "storage: flow submit tx"

ErrFlowWait == "storage: wait for flow tx"

ErrFlowReverted == "storage: flow submit reverted"

ErrNodeUpload == "storage: node upload"

ErrMintCancelled == "inft: context cancelled before mint"

ErrMintEncrypt == "inft: encrypt metadata"

ErrMintOpts == "inft: create transact opts"

ErrMintTx == "inft: mint tx"

ErrMintWait == "inft: wait for mint tx"

ErrMintReverted == "inft: mint tx reverted"

ErrMintParse == "inft: parse mint event"

\* a call's return values
Ret(val, err) == [val |-> val, err |-> err]

\* nobody publishing, polling, uploading or minting
StepsIdle ==
    /\ ppc = [p \in Publishers |-> "idle"]
    /\ pseq = [p \in Publishers |-> 0]
    /\ outbox = <<>>
    /\ gpc = "idle"
    /\ gjob = ""
    /\ results = {}
    /\ elapsed = 0
    /\ gout = ""
    /\ cpc = "idle"
    /\ creq = <<>>
    /\ steps = <<>>
    /\ cret = [val |-> <<>>, err |-> ""]
    /\ ids = {}

\* ---------------------------------------------------------------------------
\* Initial state: everything constructed (NewHandler, NewHCSTransport, New),
\* Run not yet called
\* ---------------------------------------------------------------------------
AgentConstructed ==
    /\ cancelled = FALSE
    /\ topic = <<>>
    /\ tPc = "idle"
    /\ reconnects = 0
    /\ attempts = 0
    /\ subPos = 0
    /\ msgCh = <<>>
    /\ errCh = <<>>
    /\ chClosed = FALSE
    /\ hPc = "idle"
    /\ hPending = NoMsg
    /\ subResult = "none"
    /\ taskCh = <<>>
    /\ seqNum = 0
    /\ pc = "init"
    /\ cur = NoTask
    /\ taskErr = <<>>
    /\ runResult = "none"
    /\ completedTasks = 0
    /\ failedTasks = 0
    /\ active = {}
    /\ calls = <<>>
    /\ stateLog = <<>>
    /\ audits = <<>>
    /\ reports = <<>>
    /\ startCounts = <<0, 0>>
    /\ dequeued = 0
    /\ finished = 0
    /\ stageCount = [t \in TaskIds |-> [s \in Range(Stages) |-> 0]]

\* the agent of the pipeline model runs without a fallback endpoint against
\* an empty registry; its SubmitJob outcomes are those of ClientOutcomes
Init ==
    /\ AgentConstructed
    /\ NewBroker
    /\ endpoint = ""
    /\ registry = <<>>
    /\ key = TRUE
    /\ SessionIdle
    /\ cfgMaxRetries = 0
    /\ PublisherIdle
    /\ StepsIdle
    /\ nodeEndpoint = TRUE
    /\ HealthOff

\* ---------------------------------------------------------------------------
\* Environment
\* ---------------------------------------------------------------------------
\* the process-wide cancellation signal fires (SIGINT/SIGTERM)
Cancel ==
    /\ ~cancelled
    /\ cancelled' = TRUE
    /\ UNCHANGED <<brokerVars, clientVars>>
    /\ UNCHANGED <<topic, transportVars, handlerVars, taskCh, workerVars>>

\* somebody submits a raw message to the task topic
Produce ==
    /\ Len(topic) < MaxMsgs
    /\ \E m \in RawMessages : topic' = Append(topic, m)
    /\ UNCHANGED <<brokerVars, clientVars>>
    /\ UNCHANGED <<cancelled, transportVars, handlerVars, taskCh, workerVars>>

\* ---------------------------------------------------------------------------
\* HCSTransport.runSubscription
\* ---------------------------------------------------------------------------
\* non-blocking send on errCh: select { case errCh <- e: default: }
TrySend(ch, e) == IF Len(ch) < defaultMessageBuffer THEN Append(ch, e) ELSE ch

\* loop head: ctx check, then one subscribeOnce attempt that either fails to
\* start or starts the subscription (from the topic's first message)
TAttempt ==
    /\ tPc = "loop"
    /\ IF cancelled
       THEN /\ tPc' = "closed"
            /\ chClosed' = TRUE
            /\ UNCHANGED <<subPos, attempts>>
       ELSE /\ attempts' = attempts + 1
            /\ \/ /\ tPc' = "subscribed"
                  /\ subPos' = 0
                  /\ chClosed' = chClosed
               \/ /\ tPc' = "attempt_failed"
                  /\ UNCHANGED <<subPos, chClosed>>
    /\ UNCHANGED <<brokerVars, clientVars>>
    /\ UNCHANGED <<cancelled, topic, reconnects, msgCh, errCh, handlerVars,
                   taskCh, workerVars>>

\* after a failed attempt: return if cancelled, else report the error
\* (drop-if-full) and enter the backoff wait
TAfterFailure ==
    /\ tPc = "attempt_failed"
    /\ IF cancelled
       THEN /\ tPc' = "closed"
            /\ chClosed' = TRUE
            /\ errCh' = errCh
       ELSE /\ tPc' = "backoff"
            /\ errCh' = TrySend(errCh, "attempt")
            /\ chClosed' = chClosed
    /\ UNCHANGED <<brokerVars, clientVars>>
    /\ UNCHANGED <<cancelled, topic, reconnects, attempts, subPos, msgCh,
                   handlerVars, taskCh, workerVars>>

LoopContinues_OneShort(r) == r < maxReconnects

\* the loop condition of runSubscription: reconnects <= t.maxReconnects
LoopContinues(r) == r <= maxReconnects

\* backoff wait interrupted by ctx.Done()
TBackoffCancel ==
    /\ tPc = "backoff"
    /\ cancelled
    /\ tPc' = "closed"
    /\ chClosed' = TRUE
    /\ UNCHANGED <<brokerVars, clientVars>>
    /\ UNCHANGED <<cancelled, topic, reconnects, attempts, subPos, msgCh, errCh,
                   handlerVars, taskCh, workerVars>>

\* backoff timer fires: reconnects++ and either loop again or, the budget
\* being exhausted, emit the exhaustion error and close both channels
TBackoffTimer ==
    /\ tPc = "backoff"
    /\ reconnects' = reconnects + 1
    /\ IF LoopContinues(reconnects + 1)
       THEN /\ tPc' = "loop"
            /\ UNCHANGED <<errCh, chClosed>>
       ELSE /\ tPc' = "exhausted"
            /\ errCh' = TrySend(errCh, "exhausted")
            /\ chClosed' = TRUE
    /\ UNCHANGED <<brokerVars, clientVars>>
    /\ UNCHANGED <<cancelled, topic, attempts, subPos, msgCh, handlerVars,
                   taskCh, workerVars>>

\* the SDK callback of the live subscription hands the next topic message to
\* msgCh (or, once cancelled, may drop it)
TDeliver ==
    /\ tPc = "subscribed"
    /\ subPos < Len(topic)
    /\ \/ /\ Len(msgCh) < defaultMessageBuffer
          /\ msgCh' = Append(msgCh, topic[subPos + 1])
       \/ /\ cancelled
          /\ msgCh' = msgCh
    /\ subPos' = subPos + 1
    /\ UNCHANGED <<brokerVars, clientVars>>
    /\ UNCHANGED <<cancelled, topic, tPc, reconnects, attempts, errCh, chClosed,
                   handlerVars, taskCh, workerVars>>

\* subscribeOnce returns nil after ctx.Done(); runSubscription returns
TUnsubscribe ==
    /\ tPc = "subscribed"
    /\ cancelled
    /\ tPc' = "closed"
    /\ chClosed' = TRUE
    /\ UNCHANGED <<brokerVars, clientVars>>
    /\ UNCHANGED <<cancelled, topic, reconnects, attempts, subPos, msgCh, errCh,
                   handlerVars, taskCh, workerVars>>

\* ---------------------------------------------------------------------------
\* Handler.StartSubscription and Handler.processMessage
\* ---------------------------------------------------------------------------
\* Run launches the StartSubscription and healthLoop goroutines and enters
\* its loop; StartSubscription calls Transport.Subscribe, which launches
\* runSubscription
RunStart ==
    /\ pc = "init"
    /\ pc' = "select"
    /\ hPc' = "loop"
    /\ tPc' = "loop"
    /\ hlPc' = "loop"
    /\ UNCHANGED <<brokerVars, authVars, daVars, stepVars, beats>>
    /\ UNCHANGED <<cancelled, topic, reconnects, attempts, subPos, msgCh, errCh,
                   chClosed, hPending, subResult, taskCh, cur, taskErr,
                   runResult, completedTasks, failedTasks, runHist, dequeued,
                   finished, stageCount, seqNum>>

Accepts_NoPayloadCheck(m) ==
    /\ m.envOK
    /\ m.type = MessageTypeTaskAssignment
    /\ (m.recipient = "" \/ m.recipient = AgentID)

Accepts_AnyRecipient(m) ==
    /\ m.envOK
    /\ m.type = MessageTypeTaskAssignment
    /\ m.payloadOK

\* the filters of processMessage: the message yields a task to enqueue
Accepts(m) ==
    /\ m.envOK
    /\ m.type = MessageTypeTaskAssignment
    /\ (m.recipient = "" \/ m.recipient = AgentID)
    /\ m.payloadOK

\* select case <-ctx.Done(): return ctx.Err()
HCancelled ==
    /\ hPc = "loop"
    /\ cancelled
    /\ hPc' = "done"
    /\ subResult' = Canceled
    /\ UNCHANGED <<brokerVars, clientVars>>
    /\ UNCHANGED <<cancelled, topic, transportVars, hPending, taskCh,
                   workerVars>>

\* select case err := <-errCh with an error in the channel: return the
\* wrapped ErrSubscriptionFailed.  (On the closed, empty channel the receive
\* yields nil and the loop goes round without a change of state.)
HRecvErr ==
    /\ hPc = "loop"
    /\ errCh # <<>>
    /\ errCh' = Tail(errCh)
    /\ hPc' = "done"
    /\ subResult' = "ErrSubscriptionFailed"
    /\ UNCHANGED <<brokerVars, clientVars>>
    /\ UNCHANGED <<cancelled, topic, tPc, reconnects, attempts, subPos, msgCh,
                   chClosed, hPending, taskCh, workerVars>>

\* select case data, ok := <-msgCh with a message in the channel:
\* processMessage up to its send on taskCh
HRecvMsg ==
    /\ hPc = "loop"
    /\ msgCh # <<>>
    /\ msgCh' = Tail(msgCh)
    /\ IF Accepts(Head(msgCh))
       THEN /\ hPc' = "send"
            /\ hPending' = Head(msgCh)
       ELSE UNCHANGED <<hPc, hPending>>
    /\ UNCHANGED <<brokerVars, clientVars>>
    /\ UNCHANGED <<cancelled, topic, tPc, reconnects, attempts, subPos, errCh,
                   chClosed, subResult, taskCh, workerVars>>

\* select case data, ok := <-msgCh on the closed, drained channel: return nil
HMsgClosed ==
    /\ hPc = "loop"
    /\ msgCh = <<>>
    /\ chClosed
    /\ hPc' = "done"
    /\ subResult' = "nil"
    /\ UNCHANGED <<brokerVars, clientVars>>
    /\ UNCHANGED <<cancelled, topic, transportVars, hPending, taskCh,
                   workerVars>>

GiveUpSend_DropIfFull == cancelled \/ Len(taskCh) >= TaskQueueCap

\* the only other case of the select on taskCh: case <-ctx.Done()
GiveUpSend == cancelled

\* the select at the end of processMessage: send on taskCh when it has room,
\* or give the task up once ctx is done
HSend ==
    /\ hPc = "send"
    /\ \/ /\ Len(taskCh) < TaskQueueCap
          /\ taskCh' = Append(taskCh, hPending.task)
       \/ /\ GiveUpSend
          /\ taskCh' = taskCh
    /\ hPc' = "loop"
    /\ hPending' = NoMsg
    /\ UNCHANGED <<brokerVars, clientVars>>
    /\ UNCHANGED <<cancelled, topic, transportVars, subResult, workerVars>>

\* ---------------------------------------------------------------------------
\* Handler.PublishResult and HCSTransport.Publish
\* ---------------------------------------------------------------------------
\* HCSTransport.Publish: success (the message is on the topic), an error
\* before the transaction was executed (nothing is on the topic), or an
\* error from GetReceipt after Execute had succeeded (the message was sent)
TransportPublishOutcomes ==
    { [err |-> FALSE, delivered |-> TRUE],
      [err |-> TRUE, delivered |-> FALSE],
      [err |-> TRUE, delivered |-> TRUE] }

\* HCSTransport.Publish returns on ctx.Err() before doing anything
HCSPublish(ctxDone) ==
    IF ctxDone
    THEN { [err |-> TRUE, delivered |-> FALSE] }
    ELSE TransportPublishOutcomes

\* the TaskResult processTask publishes
\* the value a client call of the given stage returns in the given run of
\* processTask when it succeeds; a failed call returns the zero value
RetVal(stage, run) == <<stage, run>>

ZeroVal == <<>>

\* result.Output and result.TokensUsed of a compute result
Output(result) == IF result = ZeroVal THEN ZeroVal ELSE <<"Output", result>>

TokensUsed(result) == IF result = ZeroVal THEN ZeroVal ELSE <<"TokensUsed", result>>

\* processTask's local variable assigned from the call of the given stage
\* (result, contentID, tokenID, auditID): locals are fresh in every run
Local(stage) ==
    LET I == { i \in 1..Len(calls) : calls[i].stage = stage }
    IN IF I = {} THEN ZeroVal
       ELSE calls[CHOOSE i \in I : \A j \in I : j <= i].val

CompletedResult_Swapped(task) ==
    [task |-> task, status |-> "completed", error |-> <<>>,
     output |-> Output(Local("GetResult")),
     tokensUsed |-> TokensUsed(Local("GetResult")),
     storageContentID |-> Local("Mint"),
     inftTokenID |-> Local("Upload"),
     auditSubmissionID |-> Local("AuditPublish")]

CompletedResult(task) ==
    [task |-> task, status |-> "completed", error |-> <<>>,
     output |-> Output(Local("GetResult")),
     tokensUsed |-> TokensUsed(Local("GetResult")),
     storageContentID |-> Local("Upload"),
     inftTokenID |-> Local("Mint"),
     auditSubmissionID |-> Local("AuditPublish")]

\* a failed task_result sets TaskID, Status and Error only
FailedFields(task, err) ==
    [task |-> task, status |-> "failed", error |-> err,
     output |-> ZeroVal, tokensUsed |-> ZeroVal, storageContentID |-> ZeroVal,
     inftTokenID |-> ZeroVal, auditSubmissionID |-> ZeroVal]

FailureResult_NoError(task, err) == FailedFields(task, <<>>)

\* the TaskResult reportFailure publishes: Error is taskErr.Error()
FailureResult(task, err) == FailedFields(task, err)

PublishResultOutcomes_NoCtxCheck(result) ==
    { [result |-> result, ctxDone |-> cancelled, handed |-> TRUE,
       delivered |-> o.delivered, seq |-> seqNum + 1,
       ret |-> IF o.err THEN ErrPublishFailed ELSE ""] :
      o \in HCSPublish(cancelled) }

\* what one PublishResult call can do: with ctx done it returns an error and
\* hands nothing to the transport; otherwise it takes the next sequence
\* number, hands the envelope to the transport and maps a transport error to
\* ErrPublishFailed
PublishResultOutcomes(result) ==
    IF cancelled
    THEN { [result |-> result, ctxDone |-> TRUE, handed |-> FALSE,
            delivered |-> FALSE, seq |-> 0, ret |-> Canceled] }
    ELSE { [result |-> result, ctxDone |-> FALSE, handed |-> TRUE,
            delivered |-> o.delivered, seq |-> seqNum + 1,
            ret |-> IF o.err THEN ErrPublishFailed ELSE ""] :
           o \in HCSPublish(cancelled) }

\* ---------------------------------------------------------------------------
\* Agent.Run, Agent.processTask, Agent.reportFailure
\* ---------------------------------------------------------------------------
\* what a call returns instead of ctx.Err() when the context is done while
\* the call is in flight: SubmitJob's client.Do fails and doWithAuthRetry
\* returns its own error
Aborted(stage) == IF stage = "SubmitJob" THEN {ErrProviderRequest} ELSE {}

\* what a client call returns: every client checks ctx.Err() on entry
ClientOutcomes(stage) ==
    IF cancelled
    THEN {Canceled} \cup Aborted(stage)
    ELSE {"", ClientErr(stage)}

\* fmt.Errorf("agent: ... failed for task %s: %w", task.TaskID, err)
WrapErr(stage, task, cause) == <<"agent: " \o stage \o " failed", task, cause>>

NextPc_PublishErrIgnored(stage, ok) ==
    CASE stage = "SubmitJob" -> IF ok THEN "GetResult" ELSE "failed"
      [] stage = "GetResult" -> IF ok THEN "Upload" ELSE "failed"
      [] stage = "Upload" -> IF ok THEN "Mint" ELSE "failed"
      [] stage = "Mint" -> IF ok THEN "AuditPublish" ELSE "failed"
      [] stage = "AuditPublish" -> "PublishResult"
      [] stage = "PublishResult" -> "select"

NextPc_PublishErrInverted(stage, ok) ==
    CASE stage = "SubmitJob" -> IF ok THEN "GetResult" ELSE "failed"
      [] stage = "GetResult" -> IF ok THEN "Upload" ELSE "failed"
      [] stage = "Upload" -> IF ok THEN "Mint" ELSE "failed"
      [] stage = "Mint" -> IF ok THEN "AuditPublish" ELSE "failed"
      [] stage = "AuditPublish" -> "PublishResult"
      [] stage = "PublishResult" -> IF ok THEN "failed" ELSE "select"

NextPc_SkipMint(stage, ok) ==
    CASE stage = "SubmitJob" -> IF ok THEN "GetResult" ELSE "failed"
      [] stage = "GetResult" -> IF ok THEN "Upload" ELSE "failed"
      [] stage = "Upload" -> IF ok THEN "AuditPublish" ELSE "failed"
      [] stage = "Mint" -> IF ok THEN "AuditPublish" ELSE "failed"
      [] stage = "AuditPublish" -> "PublishResult"
      [] stage = "PublishResult" -> IF ok THEN "select" ELSE "failed"

NextPc_AuditAborts(stage, ok) ==
    CASE stage = "SubmitJob" -> IF ok THEN "GetResult" ELSE "failed"
      [] stage = "GetResult" -> IF ok THEN "Upload" ELSE "failed"
      [] stage = "Upload" -> IF ok THEN "Mint" ELSE "failed"
      [] stage = "Mint" -> IF ok THEN "AuditPublish" ELSE "failed"
      [] stage = "AuditPublish" -> IF ok THEN "PublishResult" ELSE "failed"
      [] stage = "PublishResult" -> IF ok THEN "select" ELSE "failed"

\* position after a stage call returned: processTask returns the error of
\* every stage call except audit.Publish, whose error it discards
NextPc(stage, ok) ==
    CASE stage = "SubmitJob" -> IF ok THEN "GetResult" ELSE "failed"
      [] stage = "GetResult" -> IF ok THEN "Upload" ELSE "failed"
      [] stage = "Upload" -> IF ok THEN "Mint" ELSE "failed"
      [] stage = "Mint" -> IF ok THEN "AuditPublish" ELSE "failed"
      [] stage = "AuditPublish" -> "PublishResult"
      [] stage = "PublishResult" -> IF ok THEN "select" ELSE "failed"

\* the pipeline state a run is in once the stage call has been passed
StateAfter(stage) ==
    CASE stage = "SubmitJob" -> "ComputeSubmitted"
      [] stage = "GetResult" -> "ComputeCompleted"
      [] stage = "Upload" -> "Stored"
      [] stage = "Mint" -> "Minted"
      [] stage = "AuditPublish" -> "Audited"
      [] stage = "PublishResult" -> "Reported"

WorkerIdle_Always == TRUE

\* the Run loop is at its select and takes no task while one is processed
WorkerIdle == pc = "select"

AfterFailure_Return == "returned"

\* where Run goes after reportFailure and failedTasks.Add(1): round the loop
AfterFailure == "select"

\* select case task := <-a.handler.Tasks(); the model follows the worker
\* for its first MaxMsgs tasks
Dequeue ==
    /\ WorkerIdle
    /\ taskCh # <<>>
    /\ dequeued < MaxMsgs
    /\ cur' = Head(taskCh)
    /\ taskCh' = Tail(taskCh)
    /\ pc' = "audit_received"
    /\ dequeued' = dequeued + 1
    /\ active' = active \cup {dequeued + 1}
    /\ calls' = <<>>
    /\ stateLog' = <<"Received">>
    /\ audits' = <<>>
    /\ reports' = <<>>
    /\ taskErr' = <<>>
    /\ startCounts' = <<completedTasks, failedTasks>>
    /\ UNCHANGED <<brokerVars, clientVars>>
    /\ UNCHANGED <<cancelled, topic, transportVars, handlerVars, seqNum,
                   runResult, completedTasks, failedTasks, finished,
                   stageCount>>

\* select case <-ctx.Done(): return ctx.Err()
RunReturn ==
    /\ pc = "select"
    /\ cancelled
    /\ pc' = "returned"
    /\ runResult' = Canceled
    /\ UNCHANGED <<brokerVars, clientVars>>
    /\ UNCHANGED <<cancelled, topic, transportVars, handlerVars, taskCh,
                   seqNum, cur, taskErr, completedTasks, failedTasks, runHist,
                   dequeued, finished, stageCount>>

\* step 1: a.audit.Publish(task_received), result and error discarded
AuditReceived ==
    /\ pc = "audit_received"
    /\ \E cause \in ClientOutcomes("AuditPublish") :
         audits' = Append(audits, [type |-> EventTypeTaskReceived,
                                   task |-> cur, ok |-> cause = ""])
    /\ pc' = "SubmitJob"
    /\ UNCHANGED <<brokerVars, clientVars>>
    /\ UNCHANGED <<cancelled, topic, transportVars, handlerVars, taskCh,
                   seqNum, cur, taskErr, runResult, completedTasks,
                   failedTasks, active, calls, stateLog, reports, startCounts,
                   dequeued, finished, stageCount>>

\* one client call of processTask and the error check after it
ClientStage(stage) ==
    /\ pc = stage
    /\ \E cause \in ClientOutcomes(stage) :
         LET ok == cause = ""
             next == NextPc(stage, ok)
         IN /\ calls' = Append(calls, [stage |-> stage, ok |-> ok,
                                       cause |-> cause,
                                       val |-> IF ok
                                               THEN RetVal(stage, dequeued)
                                               ELSE ZeroVal])
            /\ pc' = next
            /\ IF next = "failed"
               THEN /\ taskErr' = WrapErr(stage, cur, cause)
                    /\ stateLog' = Append(stateLog, "Failed")
               ELSE /\ taskErr' = taskErr
                    /\ stateLog' = Append(stateLog, StateAfter(stage))
            /\ audits' = IF stage = "AuditPublish"
                         THEN Append(audits, [type |-> EventTypeJobCompleted,
                                              task |-> cur, ok |-> ok])
                         ELSE audits
    /\ stageCount' = [stageCount EXCEPT ![cur][stage] = @ + 1]
    /\ UNCHANGED <<brokerVars, clientVars>>
    /\ UNCHANGED <<cancelled, topic, transportVars, handlerVars, taskCh,
                   seqNum, cur, runResult, completedTasks, failedTasks,
                   active, reports, startCounts, dequeued, finished>>

\* step 2: a.compute.SubmitJob
SubmitJob == ClientStage("SubmitJob")

\* step 3: a.compute.GetResult
GetResult == ClientStage("GetResult")

\* step 4: a.storage.Upload
Upload == ClientStage("Upload")

\* step 5: a.minter.Mint
Mint == ClientStage("Mint")

\* step 6: a.audit.Publish(job_completed), error discarded
AuditCheckpoint == ClientStage("AuditPublish")

\* step 7: a.handler.PublishResult(completed), then completedTasks.Add(1)
\* and return nil, or return the wrapped publish error
PublishCompleted ==
    /\ pc = "PublishResult"
    /\ \E r \in PublishResultOutcomes(CompletedResult(cur)) :
         LET ok == r.ret = ""
             next == NextPc("PublishResult", ok)
         IN /\ reports' = Append(reports, r)
            /\ seqNum' = IF r.handed THEN seqNum + 1 ELSE seqNum
            /\ calls' = Append(calls, [stage |-> "PublishResult", ok |-> ok,
                                       cause |-> r.ret, val |-> ZeroVal])
            /\ pc' = next
            /\ IF next = "failed"
               THEN /\ taskErr' = WrapErr("PublishResult", cur, r.ret)
                    /\ stateLog' = Append(stateLog, "Failed")
                    /\ UNCHANGED <<completedTasks, active, finished>>
               ELSE /\ taskErr' = taskErr
                    /\ stateLog' = stateLog \o <<"Reported", "Completed">>
                    /\ completedTasks' = completedTasks + 1
                    /\ active' = active \ {dequeued}
                    /\ finished' = finished + 1
    /\ stageCount' = [stageCount EXCEPT ![cur]["PublishResult"] = @ + 1]
    /\ UNCHANGED <<brokerVars, clientVars>>
    /\ UNCHANGED <<cancelled, topic, transportVars, handlerVars, taskCh, cur,
                   runResult, failedTasks, audits, startCounts, dequeued>>

\* Run after processTask returned an error: reportFailure (one PublishResult
\* whose error is discarded), failedTasks.Add(1), back to the loop
ReportFailure ==
    /\ pc = "failed"
    /\ \E r \in PublishResultOutcomes(FailureResult(cur, taskErr)) :
         /\ reports' = Append(reports, r)
         /\ seqNum' = IF r.handed THEN seqNum + 1 ELSE seqNum
    /\ failedTasks' = failedTasks + 1
    /\ active' = active \ {dequeued}
    /\ finished' = finished + 1
    /\ pc' = AfterFailure
    /\ UNCHANGED <<brokerVars, clientVars>>
    /\ UNCHANGED <<cancelled, topic, transportVars, handlerVars, taskCh, cur,
                   taskErr, runResult, completedTasks, calls, stateLog,
                   audits, startCounts, dequeued, stageCount>>

\* ---------------------------------------------------------------------------
\* The compute broker's provider discovery: broker.ListModels,
\* broker.resolveProvider, broker.cachedModels, broker.cacheModels
\* ---------------------------------------------------------------------------
\* caller r's call in progress
CallInfo(r) ==
    [caller |-> r, op |-> rop[r], model |-> rmodel[r], disc |-> disc[r],
     seen |-> seen[r]]

CacheValid_IgnoresTTL == models # NilModels

CacheValid_Never == FALSE

\* the test of cachedModels: b.models != nil && time.Now().Before(b.modelsTTL)
CacheValid == models # NilModels /\ now < modelsTTL

\* broker.cachedModels
cachedModels == IF CacheValid THEN models ELSE NilModels

Matches_AnyModel(m, id) == m.url # ""

\* the test in both loops of resolveProvider
Matches(m, id) == m.id = id /\ m.url # ""

HasMatch(list, id) == \E i \in 1..Len(list) : Matches(list[i], id)

\* the URL the loop of resolveProvider returns: that of the first match
FirstMatch(list, id) ==
    LET i == CHOOSE k \in 1..Len(list) :
                 /\ Matches(list[k], id)
                 /\ \A j \in 1..(k - 1) : ~Matches(list[j], id)
    IN list[i].url

Resolved_AnyProvider(list, id, g) ==
    IF HasMatch(list, id)
    THEN Result("url", FirstMatch(list, id), list, "", g)
    ELSE IF list # <<>> /\ list[1].url # ""
         THEN Result("url", list[1].url, list, "", g)
         ELSE IF endpoint # ""
              THEN Result("fallback", endpoint, list, "", g)
              ELSE Result("error", "", list, ErrNoModels, g)

\* resolveProvider with a list in hand: the first match, else the fallback
\* endpoint, else an error wrapping ErrNoModels
Resolved(list, id, g) ==
    IF HasMatch(list, id)
    THEN Result("url", FirstMatch(list, id), list, "", g)
    ELSE IF endpoint # ""
         THEN Result("fallback", endpoint, list, "", g)
         ELSE Result("error", "", list, ErrNoModels, g)

OnListErr_NoFallback(err, g) == Result("error", "", <<>>, err, g)

\* resolveProvider after ListModels returned an error
OnListErr(err, g) ==
    IF endpoint # ""
    THEN Result("fallback", endpoint, <<>>, "", g)
    ELSE Result("error", "", <<>>, err, g)

\* what caller r returns once ListModels has returned list
ListModelsOk(r, list, g) ==
    IF rop[r] = "ListModels"
    THEN Result("list", "", list, "", g)
    ELSE Resolved(list, rmodel[r], g)

\* what caller r returns once ListModels has returned err
ListModelsErr(r, err, g) ==
    IF rop[r] = "ListModels"
    THEN Result("error", "", <<>>, err, g)
    ELSE OnListErr(err, g)

\* caller r's call returns out: res shows the call and what it returned
\* until the next step of the broker or its environment
Return(r, out) ==
    /\ res' = [call |-> CallInfo(r), out |-> out, old |-> models]
    /\ rpc' = [rpc EXCEPT ![r] = "idle"]
    /\ rop' = [rop EXCEPT ![r] = "none"]
    /\ rmodel' = [rmodel EXCEPT ![r] = ""]
    /\ got' = [got EXCEPT ![r] = NoList]
    /\ disc' = [disc EXCEPT ![r] = 0]
    /\ seen' = [seen EXCEPT ![r] = {}]

\* SubmitJob: ctx check, then resolveProvider up to its call of ListModels;
\* a cached match returns at once
StartResolve(r) ==
    /\ rpc[r] = "idle"
    /\ ~cancelled
    /\ \E id \in ModelIDs :
         IF HasMatch(cachedModels, id)
         THEN /\ res' = [call |-> [caller |-> r, op |-> "resolveProvider",
                                   model |-> id, disc |-> 0,
                                   seen |-> Range(registry)],
                         out |-> Resolved(cachedModels, id,
                                          [NoList EXCEPT !.via = "cache"]),
                         old |-> models]
              /\ UNCHANGED <<rpc, rop, rmodel, got, disc, seen>>
         ELSE /\ rpc' = [rpc EXCEPT ![r] = "lm_enter"]
              /\ rop' = [rop EXCEPT ![r] = "resolveProvider"]
              /\ rmodel' = [rmodel EXCEPT ![r] = id]
              /\ seen' = [seen EXCEPT ![r] = Range(registry)]
              /\ res' = NoResult
              /\ UNCHANGED <<got, disc>>
    /\ UNCHANGED <<cancelled, agentVars, clientVars, now, registry, endpoint,
                   models, modelsTTL>>

\* a direct call of ListModels begins
StartList(r) ==
    /\ rpc[r] = "idle"
    /\ rpc' = [rpc EXCEPT ![r] = "lm_enter"]
    /\ rop' = [rop EXCEPT ![r] = "ListModels"]
    /\ res' = NoResult
    /\ UNCHANGED <<cancelled, agentVars, clientVars, now, registry, endpoint,
                   models, modelsTTL, rmodel, got, disc, seen>>

\* ListModels: ctx check, cachedModels, and on a miss the start of
\* listFromChain
ListModelsEnter(r) ==
    /\ rpc[r] = "lm_enter"
    /\ IF cancelled
       THEN Return(r, ListModelsErr(r, Canceled, NoList))
       ELSE IF CacheValid
            THEN Return(r, ListModelsOk(r, cachedModels,
                                        [NoList EXCEPT !.via = "cache"]))
            ELSE /\ rpc' = [rpc EXCEPT ![r] = "chain"]
                 /\ disc' = [disc EXCEPT ![r] = @ + 1]
                 /\ res' = NoResult
                 /\ UNCHANGED <<got, rop, rmodel, seen>>
    /\ UNCHANGED <<cancelled, agentVars, clientVars, now, registry, endpoint,
                   models, modelsTTL>>

\* listFromChain returns: an error (then listFromHTTP when an endpoint is
\* configured), or the services the registry lists at that moment (none of
\* them: ErrNoModels)
ChainReturn(r) ==
    /\ rpc[r] = "chain"
    /\ \/ LET g == [NoList EXCEPT !.chain = "failed"]
          IN IF endpoint # ""
             THEN /\ rpc' = [rpc EXCEPT ![r] = "http"]
                  /\ got' = [got EXCEPT ![r] = g]
                  /\ res' = NoResult
                  /\ UNCHANGED <<rop, rmodel, disc, seen>>
             ELSE Return(r, ListModelsErr(r, "getAllServices failed", g))
       \/ /\ ~cancelled
          /\ IF Len(registry) = 0
             THEN Return(r, ListModelsErr(r, ErrNoModels,
                                          [NoList EXCEPT !.chain = "empty"]))
             ELSE /\ rpc' = [rpc EXCEPT ![r] = "store"]
                  /\ got' = [got EXCEPT ![r] =
                                [list |-> registry, via |-> "chain",
                                 chain |-> "ok", http |-> "none"]]
                  /\ res' = NoResult
                  /\ UNCHANGED <<rop, rmodel, disc, seen>>
    /\ UNCHANGED <<cancelled, agentVars, clientVars, now, registry, endpoint,
                   models, modelsTTL>>

\* listFromHTTP returns: an error, or the services the serving API of the
\* fallback endpoint lists at that moment (none of them: ErrNoModels)
ListFromHTTP(r) ==
    /\ rpc[r] = "http"
    /\ \/ Return(r, ListModelsErr(r, ErrBrokerDown,
                                  [got[r] EXCEPT !.http = "failed"]))
       \/ /\ ~cancelled
          /\ IF Len(registry) = 0
             THEN Return(r, ListModelsErr(r, ErrNoModels,
                                          [got[r] EXCEPT !.http = "empty"]))
             ELSE /\ rpc' = [rpc EXCEPT ![r] = "store"]
                  /\ got' = [got EXCEPT ![r] =
                                [list |-> registry, via |-> "http",
                                 chain |-> "failed", http |-> "ok"]]
                  /\ res' = NoResult
                  /\ UNCHANGED <<rop, rmodel, disc, seen>>
    /\ UNCHANGED <<cancelled, agentVars, clientVars, now, registry, endpoint,
                   models, modelsTTL>>

cacheModels_KeepsOld(list) ==
    /\ models' = IF models = NilModels THEN list ELSE models
    /\ modelsTTL' = now + modelCacheDuration

\* broker.cacheModels
cacheModels(list) ==
    /\ models' = list
    /\ modelsTTL' = now + modelCacheDuration

\* cacheModels with the listed services, then the return of ListModels
Store(r) ==
    /\ rpc[r] = "store"
    /\ cacheModels(got[r].list)
    /\ Return(r, ListModelsOk(r, got[r].list, got[r]))
    /\ UNCHANGED <<cancelled, agentVars, clientVars, now, registry, endpoint>>

\* a minute passes
Tick ==
    /\ now < MaxTime
    /\ now' = now + 1
    /\ res' = NoResult
    /\ UNCHANGED <<cancelled, agentVars, clientVars, registry, endpoint, models,
                   modelsTTL, rpc, rop, rmodel, got, disc, seen>>

\* providers register or deregister
RegistryChange ==
    /\ \E reg \in RegistryStates \ {registry} :
         /\ registry' = reg
         /\ seen' = [r \in Callers |->
                        IF rop[r] = "resolveProvider"
                        THEN seen[r] \cup Range(reg)
                        ELSE seen[r]]
    /\ res' = NoResult
    /\ UNCHANGED <<cancelled, agentVars, clientVars, now, endpoint, models,
                   modelsTTL, rpc, rop, rmodel, got, disc>>

\* a broker with or without a fallback endpoint, in front of any registry
BrokerInit ==
    /\ AgentConstructed
    /\ NewBroker
    /\ key = TRUE
    /\ SessionIdle
    /\ cfgMaxRetries = 0
    /\ PublisherIdle
    /\ StepsIdle
    /\ nodeEndpoint = TRUE
    /\ HealthOff
    /\ endpoint \in {"", FallbackEndpoint}
    /\ registry \in RegistryStates

BrokerNext ==
    \/ Cancel
    \/ Tick
    \/ RegistryChange
    \/ \E r \in Callers : StartResolve(r)
    \/ \E r \in Callers : StartList(r)
    \/ \E r \in Callers : ListModelsEnter(r)
    \/ \E r \in Callers : ChainReturn(r)
    \/ \E r \in Callers : ListFromHTTP(r)
    \/ \E r \in Callers : Store(r)

BrokerSpec == BrokerInit /\ [][BrokerNext]_vars

\* ---------------------------------------------------------------------------
\* The session authentication of SubmitJob: broker.buildAuthToken,
\* broker.doWithAuthRetry and the rest of broker.SubmitJob
\* ---------------------------------------------------------------------------
\* broker.buildAuthToken at second t: the timestamp and its signature
buildAuthToken(t) == [msg |-> t, sig |-> Sign(Keccak256Hash(t))]

\* what client.Do can return: a request whose context is done fails
DoOutcomes == IF cancelled THEN {TransportErr} ELSE {TransportErr} \cup Statuses

ShouldRetry_AnyFailure(resp) == resp # StatusOK /\ key

\* doWithAuthRetry goes on to its retry
ShouldRetry(resp) == resp = StatusUnauthorized /\ key

\* SubmitJob with the response doWithAuthRetry returned
SubmitOutcomes(resp) ==
    IF resp = StatusOK
    THEN {JobOut, ErrOut(ErrJobFailed)}
    ELSE {ErrOut(StatusErr(resp))}

\* SubmitJob up to its call of doWithAuthRetry, the provider resolved
AttachToken ==
    /\ apc = "idle"
    /\ ~cancelled
    /\ apc' = "first"
    /\ token' = IF key THEN buildAuthToken(unix) ELSE NoToken
    /\ sent' = <<>>
    /\ submitOut' = NoOut
    /\ UNCHANGED <<cancelled, agentVars, brokerVars, daVars, healthVars,
                   stepVars, key,
                   unix>>

\* doWithAuthRetry: the first client.Do and what follows it
FirstDo ==
    /\ apc = "first"
    /\ \E resp \in DoOutcomes :
         /\ sent' = Append(sent, [token |-> token, resp |-> resp])
         /\ IF resp = TransportErr
            THEN /\ apc' = "idle"
                 /\ submitOut' = ErrOut(ErrProviderRequest)
            ELSE IF ShouldRetry(resp)
                 THEN /\ apc' = "retry"
                      /\ submitOut' = submitOut
                 ELSE /\ apc' = "idle"
                      /\ submitOut' \in SubmitOutcomes(resp)
    /\ UNCHANGED <<cancelled, agentVars, brokerVars, daVars, healthVars,
                   stepVars, key,
                   unix, token>>

\* doWithAuthRetry after a 401: a new token, the second client.Do, and the
\* rest of SubmitJob
RetryDo ==
    /\ apc = "retry"
    /\ token' = buildAuthToken(unix)
    /\ \E resp \in DoOutcomes :
         /\ sent' = Append(sent, [token |-> token', resp |-> resp])
         /\ IF resp = TransportErr
            THEN submitOut' = ErrOut(ErrRetryRequest)
            ELSE submitOut' \in SubmitOutcomes(resp)
    /\ apc' = "idle"
    /\ UNCHANGED <<cancelled, agentVars, brokerVars, daVars, healthVars,
                   stepVars, key,
                   unix>>

\* a second passes
UnixTick ==
    /\ unix < MaxUnix
    /\ unix' = unix + 1
    /\ UNCHANGED <<cancelled, agentVars, brokerVars, daVars, healthVars,
                   stepVars, key,
                   apc, token, sent, submitOut>>

\* a broker with or without a signing key
AuthInit ==
    /\ AgentConstructed
    /\ NewBroker
    /\ endpoint = ""
    /\ registry = <<>>
    /\ key \in BOOLEAN
    /\ SessionIdle
    /\ cfgMaxRetries = 0
    /\ PublisherIdle
    /\ StepsIdle
    /\ nodeEndpoint = TRUE
    /\ HealthOff

AuthNext ==
    \/ Cancel
    \/ UnixTick
    \/ AttachToken
    \/ FirstDo
    \/ RetryDo

AuthSpec == AuthInit /\ [][AuthNext]_vars

\* ---------------------------------------------------------------------------
\* The audit publisher: NewPublisher, publisher.Publish,
\* publisher.publishWithRetry, publisher.submitToDA
\* ---------------------------------------------------------------------------
\* p.cfg.MaxRetries after NewPublisher
MaxRetries ==
    IF cfgMaxRetries = 0 THEN defaultMaxRetries ELSE cfgMaxRetries

MoreAttempts_OneShort(a) == a < MaxRetries

\* the loop condition of publishWithRetry
MoreAttempts(a) == a <= MaxRetries

AttemptStarts_Unchecked == TRUE

\* the ctx.Err() check at the top of the loop lets the attempt start
AttemptStarts == ~cancelled

\* how submitToDA can end: with a done context Transact or WaitMined fails;
\* WaitMined fails only when the context is done
DAOutcomes ==
    IF cancelled
    THEN {SubmitTxErr, WaitErr}
    ELSE {SubmitOK, SubmitTxErr, ErrSubmissionFailed, NoEventErr}

\* the transactions an attempt ending in e can have had mined successfully
Mined(e) ==
    IF e \in {SubmitOK, NoEventErr} THEN {1}
    ELSE IF e = WaitErr THEN {0, 1}
    ELSE {0}

\* Publish up to the loop of publishWithRetry
PublishStart ==
    /\ dpc = "idle"
    /\ attempt' = 0
    /\ lastErr' = ""
    /\ tries' = <<>>
    /\ accepted' = 0
    /\ IF cancelled
       THEN /\ dpc' = "idle"
            /\ pubOut' = PubCancelled("before publish")
       ELSE /\ dpc' = "check"
            /\ pubOut' = NoPub
    /\ UNCHANGED <<cancelled, agentVars, brokerVars, authVars, healthVars,
                   stepVars,
                   cfgMaxRetries>>

\* the loop condition and the ctx.Err() check of one iteration
AttemptCheck ==
    /\ dpc = "check"
    /\ IF ~MoreAttempts(attempt)
       THEN /\ dpc' = "idle"
            /\ pubOut' = PubExhausted(MaxRetries + 1, lastErr)
       ELSE IF AttemptStarts
            THEN /\ dpc' = "submit"
                 /\ pubOut' = pubOut
            ELSE /\ dpc' = "idle"
                 /\ pubOut' = PubCancelled("on attempt")
    /\ UNCHANGED <<cancelled, agentVars, brokerVars, authVars, healthVars,
                   stepVars,
                   cfgMaxRetries,
                   attempt, lastErr, tries, accepted>>

\* submitToDA and what publishWithRetry does with its result, up to the
\* backoff select
SubmitToDA ==
    /\ dpc = "submit"
    /\ \E e \in DAOutcomes :
         /\ tries' = Append(tries, e)
         /\ accepted' \in { accepted + n : n \in Mined(e) }
         /\ IF e = SubmitOK
            THEN /\ dpc' = "idle"
                 /\ pubOut' = PubOK
                 /\ UNCHANGED <<attempt, lastErr>>
            ELSE /\ lastErr' = e
                 /\ pubOut' = pubOut
                 /\ IF attempt < MaxRetries
                    THEN /\ dpc' = "backoff"
                         /\ attempt' = attempt
                    ELSE /\ dpc' = "check"
                         /\ attempt' = attempt + 1
    /\ UNCHANGED <<cancelled, agentVars, brokerVars, authVars, healthVars,
                   stepVars,
                   cfgMaxRetries>>

\* the backoff select takes its ctx.Done() case
BackoffCancelled ==
    /\ dpc = "backoff"
    /\ cancelled
    /\ dpc' = "idle"
    /\ pubOut' = PubCancelled("during backoff")
    /\ UNCHANGED <<cancelled, agentVars, brokerVars, authVars, healthVars,
                   stepVars,
                   cfgMaxRetries,
                   attempt, lastErr, tries, accepted>>

\* the backoff select takes its timer case
BackoffElapsed ==
    /\ dpc = "backoff"
    /\ dpc' = "check"
    /\ attempt' = attempt + 1
    /\ UNCHANGED <<cancelled, agentVars, brokerVars, authVars, healthVars,
                   stepVars,
                   cfgMaxRetries,
                   lastErr, tries, accepted, pubOut>>

\* a publisher made by NewPublisher from any of the configurations
PublisherInit ==
    /\ AgentConstructed
    /\ NewBroker
    /\ endpoint = ""
    /\ registry = <<>>
    /\ key = TRUE
    /\ SessionIdle
    /\ cfgMaxRetries \in 0..MaxConfigured
    /\ PublisherIdle
    /\ StepsIdle
    /\ nodeEndpoint = TRUE
    /\ HealthOff

PublisherNext ==
    \/ Cancel
    \/ PublishStart
    \/ AttemptCheck
    \/ SubmitToDA
    \/ BackoffCancelled
    \/ BackoffElapsed

PublisherSpec == PublisherInit /\ [][PublisherNext]_vars

\* ---------------------------------------------------------------------------
\* Agent.healthLoop and Handler.PublishHealth
\* ---------------------------------------------------------------------------
PublishHealthOutcomes_NoCtxCheck ==
    { [ctxDone |-> cancelled, handed |-> TRUE, delivered |-> o.delivered,
       seq |-> seqNum + 1,
       ret |-> IF o.err THEN ErrPublishFailed ELSE ""] :
      o \in HCSPublish(cancelled) }

\* what one PublishHealth call can do: with ctx done it returns an error and
\* hands nothing to the transport; otherwise it takes the next sequence
\* number, hands the envelope to the transport and maps a transport error to
\* ErrPublishFailed
PublishHealthOutcomes ==
    IF cancelled
    THEN { [ctxDone |-> TRUE, handed |-> FALSE, delivered |-> FALSE,
            seq |-> 0, ret |-> Canceled] }
    ELSE { [ctxDone |-> FALSE, handed |-> TRUE, delivered |-> o.delivered,
            seq |-> seqNum + 1,
            ret |-> IF o.err THEN ErrPublishFailed ELSE ""] :
           o \in HCSPublish(cancelled) }

\* select case <-ticker.C: PublishHealth, its error discarded
HealthTick ==
    /\ hlPc = "loop"
    /\ Len(beats) < MaxBeats
    /\ \E b \in PublishHealthOutcomes :
         /\ beats' = Append(beats, b)
         /\ seqNum' = IF b.handed THEN seqNum + 1 ELSE seqNum
    /\ UNCHANGED <<brokerVars, authVars, daVars, stepVars, hlPc>>
    /\ UNCHANGED <<cancelled, topic, transportVars, handlerVars, taskCh, pc,
                   cur, taskErr, runResult, completedTasks, failedTasks,
                   runHist, dequeued, finished, stageCount>>

\* select case <-ctx.Done(): return
HealthStop ==
    /\ hlPc = "loop"
    /\ cancelled
    /\ hlPc' = "returned"
    /\ UNCHANGED <<cancelled, agentVars, brokerVars, authVars, daVars,
                   stepVars, beats>>

\* a running agent whose subscription has handed it one task
HealthInit ==
    /\ NewBroker
    /\ endpoint = ""
    /\ registry = <<>>
    /\ cancelled = FALSE
    /\ topic = <<RawMsg(TRUE, MessageTypeTaskAssignment, "", TRUE, "t1")>>
    /\ tPc = "subscribed"
    /\ reconnects = 0
    /\ attempts = 1
    /\ subPos = 1
    /\ msgCh = <<>>
    /\ errCh = <<>>
    /\ chClosed = FALSE
    /\ hPc = "loop"
    /\ hPending = NoMsg
    /\ subResult = "none"
    /\ taskCh = <<"t1">>
    /\ seqNum = 0
    /\ pc = "select"
    /\ cur = NoTask
    /\ taskErr = <<>>
    /\ runResult = "none"
    /\ completedTasks = 0
    /\ failedTasks = 0
    /\ active = {}
    /\ calls = <<>>
    /\ stateLog = <<>>
    /\ audits = <<>>
    /\ reports = <<>>
    /\ startCounts = <<0, 0>>
    /\ dequeued = 0
    /\ finished = 0
    /\ stageCount = [t \in TaskIds |-> [s \in Range(Stages) |-> 0]]
    /\ key = TRUE
    /\ SessionIdle
    /\ cfgMaxRetries = 0
    /\ PublisherIdle
    /\ StepsIdle
    /\ nodeEndpoint = TRUE
    /\ hlPc = "loop"
    /\ beats = <<>>

\* the worker, the health loop and the idle subscriber of that agent
HealthNext ==
    \/ Cancel
    \/ HealthTick
    \/ HealthStop
    \/ HCancelled
    \/ Dequeue
    \/ RunReturn
    \/ AuditReceived
    \/ SubmitJob
    \/ GetResult
    \/ Upload
    \/ Mint
    \/ AuditCheckpoint
    \/ PublishCompleted
    \/ ReportFailure

HealthSpec == HealthInit /\ [][HealthNext]_vars

\* ---------------------------------------------------------------------------
\* Handler.PublishResult and Handler.PublishHealth step by step: the worker
\* and the healthLoop goroutine call them on the same Handler, and between
\* seqNum.Add(1) and Transport.Publish a goroutine can be preempted
\* ---------------------------------------------------------------------------
\* ctx.Err() == nil, json.Marshal, then SequenceNum: h.seqNum.Add(1); with
\* ctx done the call returns before it takes a number
TakeSeq(p) ==
    /\ ppc[p] = "idle"
    /\ ~cancelled
    /\ seqNum < MaxSeq
    /\ seqNum' = seqNum + 1
    /\ pseq' = [pseq EXCEPT ![p] = seqNum + 1]
    /\ ppc' = [ppc EXCEPT ![p] = "publish"]
    /\ UNCHANGED <<outbox, pollVars, opVars>>
    /\ UNCHANGED <<brokerVars, authVars, daVars, healthVars>>
    /\ UNCHANGED <<cancelled, topic, transportVars, handlerVars, taskCh, pc,
                   cur, taskErr, runResult, completedTasks, failedTasks,
                   runHist, dequeued, finished, stageCount>>

\* h.cfg.Transport.Publish(ctx, topic, data): the transport checks ctx
\* first and takes the envelope only when it is not done
TransportPublish(p) ==
    /\ ppc[p] = "publish"
    /\ outbox' = IF cancelled THEN outbox
                 ELSE Append(outbox, [by |-> p, seq |-> pseq[p]])
    /\ ppc' = [ppc EXCEPT ![p] = "idle"]
    /\ UNCHANGED <<pseq, pollVars, opVars>>
    /\ UNCHANGED <<cancelled, agentVars, brokerVars, authVars, daVars,
                   healthVars>>

\* a running agent: the worker and the healthLoop both hold the Handler
SeqInit ==
    /\ HealthInit

SeqNext ==
    \/ Cancel
    \/ \E p \in Publishers : TakeSeq(p)
    \/ \E p \in Publishers : TransportPublish(p)

SeqSpec == SeqInit /\ [][SeqNext]_vars

\* ---------------------------------------------------------------------------
\* client.Upload (storage) and minter.Mint (iNFT)
\* ---------------------------------------------------------------------------
opFrame == <<agentVars, brokerVars, authVars, daVars, healthVars, seqVars,
             pollVars>>

Step(name, ok) == [step |-> name, ok |-> ok]

\* the call returns
OpReturn(val, err) ==
    /\ cpc' = "returned"
    /\ cret' = Ret(val, err)

\* contentID := common.Bytes2Hex(dataRoot[:]) with dataRoot the SHA-256 of
\* the data
ContentID_WithMeta(data, meta) == Bytes2Hex(Sum256(<<data, meta>>))

ContentID(data, meta) == Bytes2Hex(Sum256(data))

\* what bind.WaitMined and the receipt can give: the ctx error once ctx is
\* done, else a receipt that is successful or reverted
WaitOutcomes == (IF cancelled THEN {"ctx"} ELSE {}) \cup {"ok", "reverted"}

\* err == nil and receipt.Status == types.ReceiptStatusSuccessful
Anchored_Unchecked(o) == o # "ctx"

Anchored(o) == o = "ok"

\* the steps WaitMined and the status check add
WaitSteps(o) ==
    IF o = "ctx" THEN <<Step("wait", FALSE)>>
    ELSE <<Step("wait", TRUE), Step("receipt", o = "ok")>>

\* Upload: ctx check, then the data root
UploadStart ==
    /\ cpc \in {"idle", "returned"}
    /\ \E d \in Blobs, m \in Metas :
         creq' = [op |-> "Upload", data |-> d, meta |-> m, keyLen |-> 0]
    /\ steps' = <<>>
    /\ IF cancelled
       THEN OpReturn(ZeroVal, ErrUploadCancelled)
       ELSE cpc' = "flow_submit" /\ cret' = Ret(ZeroVal, "")
    /\ UNCHANGED <<cancelled, nodeEndpoint, ids, opFrame>>

\* MakeTransactOpts, then c.contract.Transact(opts, "submit", dataRoot, length)
FlowSubmit ==
    /\ cpc = "flow_submit"
    /\ \E o \in {"opts", "send", "ok"} :
         /\ steps' = IF o = "opts" THEN steps
                     ELSE Append(steps, Step("transact", o = "ok"))
         /\ IF o = "ok" THEN cpc' = "flow_wait" /\ cret' = cret
            ELSE OpReturn(ZeroVal, IF o = "opts" THEN ErrFlowOpts
                                 ELSE ErrFlowSubmit)
    /\ UNCHANGED <<cancelled, nodeEndpoint, creq, ids, opFrame>>

\* bind.WaitMined and the receipt status; with no storage endpoint
\* configured Upload returns the content ID here
FlowWait ==
    /\ cpc = "flow_wait"
    /\ \E o \in WaitOutcomes :
         /\ steps' = steps \o WaitSteps(o)
         /\ IF Anchored(o)
            THEN IF nodeEndpoint
                 THEN cpc' = "node_upload" /\ UNCHANGED <<cret, ids>>
                 ELSE /\ OpReturn(ContentID(creq.data, creq.meta), "")
                      /\ ids' = ids \cup
                             {[data |-> creq.data, meta |-> creq.meta,
                               id |-> ContentID(creq.data, creq.meta)]}
            ELSE /\ OpReturn(ZeroVal, IF o = "ctx" THEN ErrFlowWait
                                    ELSE ErrFlowReverted)
                 /\ ids' = ids
    /\ UNCHANGED <<cancelled, nodeEndpoint, creq, opFrame>>

\* c.uploadToNode: the HTTP POST made with ctx; only status 200 or 201 is
\* success
NodeUpload ==
    /\ cpc = "node_upload"
    /\ \E ok \in (IF cancelled THEN {FALSE} ELSE BOOLEAN) :
         /\ steps' = Append(steps, Step("node", ok))
         /\ IF ok
            THEN /\ OpReturn(ContentID(creq.data, creq.meta), "")
                 /\ ids' = ids \cup
                        {[data |-> creq.data, meta |-> creq.meta,
                          id |-> ContentID(creq.data, creq.meta)]}
            ELSE /\ OpReturn(ZeroVal, ErrNodeUpload)
                 /\ ids' = ids
    /\ UNCHANGED <<cancelled, nodeEndpoint, creq, opFrame>>

\* encryptMetadata succeeds with a 32-byte key
EncryptOK_AnyKey(keyLen) == TRUE

EncryptOK(keyLen) == keyLen = KeySize

\* Mint: ctx check, encryptMetadata, json.Marshal
MintStart ==
    /\ cpc \in {"idle", "returned"}
    /\ \E k \in KeyLens :
         /\ creq' = [op |-> "Mint", data |-> "", meta |-> "", keyLen |-> k]
         /\ IF cancelled
            THEN steps' = <<>> /\ OpReturn(ZeroVal, ErrMintCancelled)
            ELSE /\ steps' = <<Step("encrypt", EncryptOK(k))>>
                 /\ IF EncryptOK(k)
                    THEN cpc' = "mint_submit" /\ cret' = Ret(ZeroVal, "")
                    ELSE OpReturn(ZeroVal, ErrMintEncrypt)
    /\ UNCHANGED <<cancelled, nodeEndpoint, ids, opFrame>>

\* MakeTransactOpts, then m.contract.Transact(opts, "mint", ...)
MintSubmit ==
    /\ cpc = "mint_submit"
    /\ \E o \in {"opts", "send", "ok"} :
         /\ steps' = IF o = "opts" THEN steps
                     ELSE Append(steps, Step("transact", o = "ok"))
         /\ IF o = "ok" THEN cpc' = "mint_wait" /\ cret' = cret
            ELSE OpReturn(ZeroVal, IF o = "opts" THEN ErrMintOpts ELSE ErrMintTx)
    /\ UNCHANGED <<cancelled, nodeEndpoint, creq, ids, opFrame>>

\* bind.WaitMined, the receipt status, then parseTransferEvent: the token ID
\* of the first Transfer log, or an error when the receipt has none
MintWait ==
    /\ cpc = "mint_wait"
    /\ \E o \in WaitOutcomes, ev \in {0} \cup TokenIDs :
         IF Anchored(o)
         THEN /\ steps' = steps \o WaitSteps(o) \o <<Step("parse", ev # 0)>>
              /\ IF ev # 0 THEN OpReturn(TokenString(ev), "")
                 ELSE OpReturn(ZeroVal, ErrMintParse)
         ELSE /\ steps' = steps \o WaitSteps(o)
              /\ OpReturn(ZeroVal, IF o = "ctx" THEN ErrMintWait
                                 ELSE ErrMintReverted)
    /\ UNCHANGED <<cancelled, nodeEndpoint, creq, ids, opFrame>>

\* clients constructed, with or without a storage node endpoint
OpInit ==
    /\ AgentConstructed
    /\ NewBroker
    /\ endpoint = ""
    /\ registry = <<>>
    /\ key = TRUE
    /\ SessionIdle
    /\ cfgMaxRetries = 0
    /\ PublisherIdle
    /\ StepsIdle
    /\ nodeEndpoint \in BOOLEAN
    /\ HealthOff

OpNext ==
    \/ Cancel
    \/ UploadStart
    \/ FlowSubmit
    \/ FlowWait
    \/ NodeUpload
    \/ MintStart
    \/ MintSubmit
    \/ MintWait

OpSpec == OpInit /\ [][OpNext]_vars

\* ---------------------------------------------------------------------------
\* broker.GetResult
\* ---------------------------------------------------------------------------
pollFrame == <<agentVars, brokerVars, authVars, daVars, healthVars, seqVars,
               opVars>>

\* b.results.Load(jobID)
Cached(jobID) == jobID \in results

\* the deadline channel of time.After(PollTimeout) has fired
DeadlineReady_Never == FALSE

DeadlineReady == elapsed >= PollTicks

\* entry: the ctx check, then the cache look-up; a miss starts the deadline
\* timer and the ticker
GetResultEnter ==
    /\ gpc # "polling"
    /\ \E j \in JobIDs :
         /\ gjob' = j
         /\ elapsed' = 0
         /\ IF cancelled
            THEN gpc' = "returned" /\ gout' = ErrCancelledOnEntry
            ELSE IF Cached(j)
                 THEN gpc' = "returned" /\ gout' = JobResult(j)
                 ELSE gpc' = "polling" /\ gout' = ""
    /\ UNCHANGED <<cancelled, results, pollFrame>>

\* a poll interval passes and select takes case <-ticker.C: return the
\* result when it is there now, else go round the loop
PollTick ==
    /\ gpc = "polling"
    /\ elapsed' = IF elapsed < PollTicks THEN elapsed + 1 ELSE elapsed
    /\ IF Cached(gjob)
       THEN gpc' = "returned" /\ gout' = JobResult(gjob)
       ELSE UNCHANGED <<gpc, gout>>
    /\ UNCHANGED <<cancelled, gjob, results, pollFrame>>

\* select takes case <-deadline
PollTimeout ==
    /\ gpc = "polling"
    /\ DeadlineReady
    /\ gpc' = "returned"
    /\ gout' = ErrPollTimeout
    /\ UNCHANGED <<cancelled, gjob, results, elapsed, pollFrame>>

\* select takes case <-ctx.Done()
PollCancelled ==
    /\ gpc = "polling"
    /\ cancelled
    /\ gpc' = "returned"
    /\ gout' = ErrCancelledPolling
    /\ UNCHANGED <<cancelled, gjob, results, elapsed, pollFrame>>

\* SubmitJob, called by another goroutine, stores the result of a job:
\* b.results.Store(chatResp.ID, ...)
StoreResult ==
    /\ \E j \in JobIDs \ results : results' = results \cup {j}
    /\ UNCHANGED <<cancelled, gpc, gjob, elapsed, gout, pollFrame>>

PollInit ==
    /\ Init

PollNext ==
    \/ Cancel
    \/ GetResultEnter
    \/ PollTick
    \/ PollTimeout
    \/ PollCancelled
    \/ StoreResult

\* time passes while GetResult polls, and a select whose deadline case
\* stays ready takes it or another case that returns
PollSpec ==
    /\ PollInit
    /\ [][PollNext]_vars
    /\ WF_vars(PollTick)
    /\ WF_vars(PollTimeout)

\* ---------------------------------------------------------------------------
\* Specification
\* ---------------------------------------------------------------------------
Next ==
    \/ Cancel
    \/ Produce
    \/ RunStart
    \/ TAttempt
    \/ TAfterFailure
    \/ TBackoffCancel
    \/ TBackoffTimer
    \/ TDeliver
    \/ TUnsubscribe
    \/ HCancelled
    \/ HRecvErr
    \/ HRecvMsg
    \/ HMsgClosed
    \/ HSend
    \/ Dequeue
    \/ RunReturn
    \/ AuditReceived
    \/ SubmitJob
    \/ GetResult
    \/ Upload
    \/ Mint
    \/ AuditCheckpoint
    \/ PublishCompleted
    \/ ReportFailure

Spec == Init /\ [][Next]_vars

TypeOK ==
    /\ cancelled \in BOOLEAN
    /\ Len(topic) <= TaskQueueCap - 1 + MaxMsgs
    /\ Len(taskCh) <= TaskQueueCap
    /\ pc \in {"init", "select", "audit_received", "failed", "returned"}
                 \cup Range(Stages)
    /\ cur \in TaskIds \cup {NoTask}

\* ---------------------------------------------------------------------------
\* The same program with a busy topic: the subscription is live, the
\* coordinator has published TaskQueueCap - 1 + MaxMsgs broadcast
\* assignments, the handler has queued the first TaskQueueCap - 1 of them
\* and the worker, at its select, has not taken one yet
\* ---------------------------------------------------------------------------
BusyTopic ==
    [i \in 1..(TaskQueueCap - 1 + MaxMsgs) |->
        RawMsg(TRUE, MessageTypeTaskAssignment, "", TRUE, "t1")]

QueueInit ==
    /\ NewBroker
    /\ endpoint = ""
    /\ registry = <<>>
    /\ cancelled = FALSE
    /\ topic = BusyTopic
    /\ tPc = "subscribed"
    /\ reconnects = 0
    /\ attempts = 1
    /\ subPos = TaskQueueCap - 1
    /\ msgCh = <<>>
    /\ errCh = <<>>
    /\ chClosed = FALSE
    /\ hPc = "loop"
    /\ hPending = NoMsg
    /\ subResult = "none"
    /\ taskCh = [i \in 1..(TaskQueueCap - 1) |-> "t1"]
    /\ seqNum = 0
    /\ pc = "select"
    /\ cur = NoTask
    /\ taskErr = <<>>
    /\ runResult = "none"
    /\ completedTasks = 0
    /\ failedTasks = 0
    /\ active = {}
    /\ calls = <<>>
    /\ stateLog = <<>>
    /\ audits = <<>>
    /\ reports = <<>>
    /\ startCounts = <<0, 0>>
    /\ dequeued = 0
    /\ finished = 0
    /\ stageCount = [t \in TaskIds |-> [s \in Range(Stages) |-> 0]]
    /\ key = TRUE
    /\ SessionIdle
    /\ cfgMaxRetries = 0
    /\ PublisherIdle
    /\ StepsIdle
    /\ nodeEndpoint = TRUE
    /\ hlPc = "loop"
    /\ beats = <<>>

\* the steps the program can take from there
QueueNext ==
    \/ Cancel
    \/ TDeliver
    \/ TUnsubscribe
    \/ HCancelled
    \/ HRecvMsg
    \/ HMsgClosed
    \/ HSend
    \/ Dequeue
    \/ RunReturn
    \/ AuditReceived
    \/ SubmitJob
    \/ GetResult
    \/ Upload
    \/ Mint
    \/ AuditCheckpoint
    \/ PublishCompleted
    \/ ReportFailure

QueueSpec == QueueInit /\ [][QueueNext]_vars

\* goroutines are scheduled fairly; the cancellation signal and the arrival of
\* topic messages are up to the environment
TransportStep ==
    TAttempt \/ TAfterFailure \/ TBackoffCancel \/ TBackoffTimer \/ TDeliver
        \/ TUnsubscribe

HandlerStep == HCancelled \/ HRecvErr \/ HRecvMsg \/ HMsgClosed \/ HSend

WorkerStep ==
    RunStart \/ Dequeue \/ RunReturn \/ AuditReceived \/ SubmitJob
        \/ GetResult \/ Upload \/ Mint \/ AuditCheckpoint \/ PublishCompleted
        \/ ReportFailure

FairSpec ==
    /\ Init
    /\ [][Next]_vars
    /\ WF_vars(TransportStep)
    /\ WF_vars(HandlerStep)
    /\ WF_vars(WorkerStep)

\* ---------------------------------------------------------------------------
\* Properties
\* ---------------------------------------------------------------------------
\* the run of the last dequeued task has finished (processTask and, after an
\* error, reportFailure have returned)
RunFinished == dequeued > 0 /\ active = {}

Last(seq) == seq[Len(seq)]

AllCallsOk == \A i \in 1..Len(calls) : calls[i].ok

AllAuditsOk == \A i \in 1..Len(audits) : audits[i].ok

StageOf(seq) == [i \in 1..Len(seq) |-> seq[i].stage]

Delivered == { i \in 1..Len(reports) : reports[i].delivered }

\* the failure reports of the current run
FailedReports == { i \in 1..Len(reports) : reports[i].result.status = "failed" }

\* C1: a run whose SubmitJob, GetResult, Upload, Mint, audit Publish and
\* result publish calls all succeed passes through the seven pipeline states in
\* order, ends Completed, adds exactly one to completedTasks and leaves
\* failedTasks unchanged.
C1_AllSucceedCompletes ==
    (RunFinished /\ AllCallsOk /\ AllAuditsOk) =>
        /\ StageOf(calls) = Stages
        /\ stateLog = PipelineStates \o <<"Completed">>
        /\ taskErr = <<>>
        /\ completedTasks = startCounts[1] + 1
        /\ failedTasks = startCounts[2]

C1_Witness ==
    /\ RunFinished
    /\ AllCallsOk
    /\ AllAuditsOk
    /\ Len(calls) = Len(Stages)
    /\ completedTasks = 1
    /\ failedTasks = 0

C3_FailureReportedOnce ==
    /\ Cardinality(FailedReports) <= 1
    /\ \A i \in 1..Len(calls) :
        (~calls[i].ok /\ calls[i].stage # "AuditPublish") =>
            /\ i = Len(calls)
            /\ Last(stateLog) = "Failed"
            /\ pc \in {"failed", "select", "returned"}
            /\ i < 5 => \A k \in 1..Len(audits) :
                            audits[k].type # EventTypeJobCompleted
            /\ pc = "failed" => FailedReports = {}
            /\ pc # "failed" =>
                /\ FailedReports = {Len(reports)}
                /\ Last(reports).result.task = cur
                /\ Last(reports).result.error # <<>>
                /\ calls[i].cause # ""
                /\ calls[i].cause \in Range(Last(reports).result.error)
                /\ failedTasks = startCounts[2] + 1

C3_Witness ==
    /\ RunFinished
    /\ Len(calls) = 1
    /\ ~calls[1].ok
    /\ Len(reports) = 1
    /\ ~reports[1].delivered
    /\ ~cancelled

C5_OneRunAtATime == Cardinality(active) <= 1

C5_Witness ==
    /\ Cardinality(active) = 1
    /\ taskCh # <<>>
    /\ pc = "Upload"

\* C6: however often a task ID is delivered, its compute, storage and mint
\* stages are executed at most once.
C6_Original ==
    \A t \in TaskIds :
        \A s \in {"SubmitJob", "GetResult", "Upload", "Mint"} :
            stageCount[t][s] <= 1

C8_Original ==
    (RunFinished /\ Last(stateLog) = "Completed") =>
        [k \in 1..Len(audits) |-> audits[k].type] =
            <<EventTypeTaskReceived, EventTypeJobSubmitted,
              EventTypeJobCompleted, EventTypeResultStored,
              EventTypeINFTMinted, EventTypeResultReport>>

\* C9: a failed task never stops the worker: Run returns only on
\* cancellation, after a failure report it is back at its select, and there
\* it takes the next queued task.
C9_WorkerSurvivesFailure ==
    /\ pc = "returned" => (cancelled /\ runResult = Canceled)
    /\ (failedTasks > 0 /\ active = {}) => pc \in {"select", "returned"}
    /\ (failedTasks > 0 /\ pc = "select" /\ taskCh # <<>>) => ENABLED Dequeue

C9_Witness ==
    /\ startCounts = <<0, 1>>
    /\ dequeued = 2
    /\ RunFinished
    /\ Last(stateLog) = "Completed"
    /\ ~cancelled

\* C10: once the subscriber has exhausted its reconnect attempts, Run
\* returns a non-cancellation error (unless the process is cancelled first).
C10_Original ==
    (tPc = "exhausted" /\ ~cancelled) ~>
        (cancelled \/ (pc = "returned" /\ runResult # Canceled))

\* C11: an error emitted on the error stream while the transport is
\* reconnecting does not end task delivery: when the transport has
\* resubscribed within its budget and nothing is cancelled, StartSubscription
\* has not returned ErrSubscriptionFailed.
C11_Original ==
    (~cancelled /\ reconnects > 0 /\ tPc = "subscribed") =>
        subResult # "ErrSubscriptionFailed"

\* C12: the subscriber makes at most maxReconnects+1 subscribe attempts,
\* each attempt after the first follows a completed reconnect wait, without
\* cancellation the channels are closed only after exactly maxReconnects+1
\* attempts, and once they are closed no attempt can be made.
C12_ExactAttempts ==
    /\ attempts <= maxReconnects + 1
    /\ attempts <= reconnects + 1
    /\ tPc = "exhausted" =>
          /\ attempts = maxReconnects + 1
          /\ reconnects = maxReconnects + 1
          /\ chClosed
    /\ (chClosed /\ ~cancelled) =>
          (tPc = "exhausted" /\ attempts = maxReconnects + 1)
    /\ chClosed => (tPc \in {"exhausted", "closed"} /\ ~ENABLED TAttempt)

C12_Witness ==
    /\ tPc = "exhausted"
    /\ ~cancelled
    /\ attempts = maxReconnects + 1
    /\ chClosed

\* C13: once the cancellation signal has fired the subscriber makes no
\* further subscribe attempt and puts no further error on the error stream.
C13_Original ==
    [][cancelled => (attempts' = attempts /\ Len(errCh') <= Len(errCh))]_vars

\* the raw messages the running subscription has taken from msgCh
Consumed == SubSeq(topic, 1, subPos - Len(msgCh))

\* number of messages of seq that pass the filters of processMessage
AcceptedIn(seq) == Cardinality({ i \in 1..Len(seq) : Accepts(seq[i]) })

\* assignments processMessage has enqueued or is holding for its send
Handed == Len(taskCh) + dequeued + (IF hPc = "send" THEN 1 ELSE 0)

\* UnmarshalEnvelope fails, or the payload is not a TaskAssignment
Malformed(m) == ~m.envOK \/ ~m.payloadOK

\* StartSubscription takes the head of msgCh
TakesHead == hPc = "loop" /\ msgCh # <<>> /\ msgCh' = Tail(msgCh)

C16_OnlyAddressedAssignments ==
    [][/\ Len(taskCh') > Len(taskCh) =>
             /\ hPc = "send"
             /\ hPending.envOK
             /\ hPending.type = MessageTypeTaskAssignment
             /\ hPending.recipient \in {"", AgentID}
             /\ taskCh' = Append(taskCh, hPending.task)
       /\ ( /\ TakesHead
            /\ Head(msgCh).envOK
            /\ \/ Head(msgCh).type # MessageTypeTaskAssignment
               \/ Head(msgCh).recipient \notin {"", AgentID} ) =>
             (hPc' = "loop" /\ UNCHANGED <<hPending, taskCh>>)]_vars

C16_Witness ==
    /\ Len(topic) = 2
    /\ topic[1].recipient = "other"
    /\ topic[2].type = MessageTypeHeartbeat
    /\ Consumed = topic
    /\ hPc = "loop"
    /\ taskCh = <<>>
    /\ dequeued = 0
    /\ ~cancelled

\* C14: the inbound queue never holds more than TaskQueueCap assignments;
\* with the queue full and nothing cancelled the handler's send cannot
\* proceed (it waits), and as long as nothing is cancelled every valid
\* assignment taken from the stream is in the queue, held for the send or
\* already dequeued.
C14_Backpressure ==
    /\ Len(taskCh) <= TaskQueueCap
    /\ (hPc = "send" /\ Len(taskCh) = TaskQueueCap /\ ~cancelled) =>
          ~ENABLED HSend
    /\ ~cancelled => Handed = AcceptedIn(Consumed)

C14_Witness ==
    /\ hPc = "send"
    /\ Len(taskCh) = TaskQueueCap
    /\ Accepts(hPending)
    /\ ~cancelled

\* a discovered list is cached and its TTL has not expired
WithinTTL == models # NilModels /\ now < modelsTTL

\* caller r's ListModels leaves its entry (the ctx check and the cache look-up)
LeavesEntry(r) == rpc[r] = "lm_enter" /\ rpc'[r] # "lm_enter"

\* callers whose listFromChain call is in flight
InFlight == { r \in Callers : rpc[r] = "chain" }

\* the provider record behind the URL the last resolution returned
Returned == Model(res.call.model, res.out.url)

\* C17: a ListModels call that looks at the cache before the TTL of the last
\* successful discovery has expired returns the cached provider set and makes
\* no discovery call; one that looks at it after the expiry (or with nothing
\* cached) makes a discovery call, and no call makes more than one.
C17_CachedWithinTTL ==
    /\ [][\A r \in Callers :
            (LeavesEntry(r) /\ ~cancelled) =>
                IF WithinTTL
                THEN /\ rpc'[r] = "idle"
                     /\ res'.call.caller = r
                     /\ res'.call.disc = 0
                     /\ res'.out.via = "cache"
                     /\ res'.out.list = models
                     /\ UNCHANGED <<models, modelsTTL>>
                ELSE /\ rpc'[r] = "chain"
                     /\ disc'[r] = 1]_vars
    /\ [](res.out.via = "cache" =>
             (res.call.disc = 0 /\ res.out.list = models /\ WithinTTL))
    /\ [](res.call.disc <= 1 /\ \A r \in Callers : disc[r] <= 1)

C17_Witness ==
    /\ res.call.op = "ListModels"
    /\ res.out.via = "cache"
    /\ res.out.kind = "list"
    /\ res.out.list = models
    /\ modelsTTL = now + 1
    /\ ~cancelled

\* C18: at most one discovery call is in flight per broker instance.
C18_Original == Cardinality(InFlight) <= 1

\* C18 as the code has it: every call makes at most one discovery call, and
\* makes it only from the entry of ListModels after finding no valid cache;
\* concurrent calls may each have theirs in flight.
C18_OnePerCall ==
    /\ [](\A r \in Callers :
             /\ rpc[r] \in {"idle", "lm_enter"} => disc[r] = 0
             /\ rpc[r] \in {"chain", "http", "store"} => disc[r] = 1)
    /\ [][\A r \in Callers :
            (rpc'[r] = "chain" /\ rpc[r] # "chain") =>
                (rpc[r] = "lm_enter" /\ ~WithinTTL /\ ~cancelled)]_vars

C18_Witness ==
    /\ InFlight = Callers
    /\ \A r \in Callers : disc[r] = 1
    /\ ~WithinTTL

C20_Original ==
    (res.call.op = "resolveProvider" /\ res.out.chain = "failed") =>
        IF endpoint # ""
        THEN res.out.kind = "fallback" /\ res.out.url = endpoint
        ELSE res.out.kind = "error"

\* C20 as the code has it: a call that returns without a cache hit and
\* without cancellation has made a discovery call; after a failed discovery
\* a resolution without a fallback endpoint returns an error, and one with a
\* fallback endpoint lists that endpoint's services over HTTP and returns the
\* first listed URL for the model if there is one, else the endpoint itself.
C20_DiscoveryFailure ==
    /\ (res.out.kind # "none" /\ res.out.via # "cache" /\ ~cancelled) =>
          res.call.disc = 1
    /\ (res.call.op = "resolveProvider" /\ res.out.chain = "failed") =>
          IF endpoint = ""
          THEN res.out.kind = "error" /\ res.out.http = "none"
          ELSE IF res.out.http = "ok"
                  /\ \E i \in 1..Len(res.out.list) :
                        /\ res.out.list[i].id = res.call.model
                        /\ res.out.list[i].url # ""
               THEN /\ res.out.kind = "url"
                    /\ res.out.via = "http"
                    /\ Returned \in Range(res.out.list)
               ELSE /\ res.out.kind = "fallback"
                    /\ res.out.url = endpoint

C20_Witness ==
    /\ res.call.op = "resolveProvider"
    /\ res.out.chain = "failed"
    /\ res.out.http = "ok"
    /\ res.out.kind = "url"
    /\ endpoint = FallbackEndpoint
    /\ res.out.url # endpoint

\* caller r's successful discovery stores what it listed
Stores(r) == rpc[r] = "store" /\ rpc'[r] # "store"

\* the call that has just returned made a successful discovery
Discovered == res.out.via \in {"chain", "http"}

\* C21: every successful discovery replaces the whole cached provider set by
\* exactly the providers it listed, and sets the expiry to the time of the
\* replacement plus modelCacheDuration; nothing else changes the cache.
C21_ReplacesWholesale ==
    /\ [][\A r \in Callers :
            Stores(r) => /\ models' = got[r].list
                         /\ modelsTTL' = now + modelCacheDuration
                         /\ res'.out.list = got[r].list
                         /\ res'.old = models]_vars
    /\ [][(models' # models \/ modelsTTL' # modelsTTL) =>
             \E r \in Callers : Stores(r)]_vars
    /\ [](Discovered => /\ models = res.out.list
                        /\ modelsTTL = now + modelCacheDuration
                        /\ \A m \in Range(res.old) :
                              m \in Range(models) => m \in Range(res.out.list))

\* a discovery has just replaced a cached set, one of whose providers it did
\* not list
C21_Witness ==
    /\ Discovered
    /\ res.old # NilModels
    /\ Range(res.old) \ Range(res.out.list) # {}
    /\ models = res.out.list
    /\ now >= modelCacheDuration
    /\ modelsTTL = now + modelCacheDuration

\* SubmitJob has returned
Submitted == apc = "idle" /\ submitOut.kind # "none"

\* C22: one SubmitJob calls client.Do at most twice; the second call is made
\* only after a 401 answer to the first (and with a signing key), is then
\* made exactly once and is the last; a second 401 is returned to the caller
\* as an error naming that status, and a transport error or any other
\* status is returned without a retry.
C22_RetryOnceOn401 ==
    /\ Len(sent) <= 2
    /\ Len(sent) = 2 => (sent[1].resp = StatusUnauthorized /\ key)
    /\ apc = "retry" => (Len(sent) = 1 /\ sent[1].resp = StatusUnauthorized)
    /\ Submitted =>
         /\ Len(sent) >= 1
         /\ (sent[1].resp = StatusUnauthorized /\ key) => Len(sent) = 2
         /\ sent[1].resp # StatusUnauthorized => Len(sent) = 1
         /\ Last(sent).resp = StatusUnauthorized =>
                submitOut = ErrOut(StatusErr(StatusUnauthorized))
         /\ Last(sent).resp # StatusOK => submitOut.kind = "error"

\* the retry was answered by a second 401 and SubmitJob returned the error
C22_Witness ==
    /\ Submitted
    /\ Len(sent) = 2
    /\ sent[1].resp = StatusUnauthorized
    /\ sent[2].resp = StatusUnauthorized
    /\ submitOut = ErrOut(StatusErr(StatusUnauthorized))

\* C23: the token sent with the retry differs from the token the provider
\* has just rejected.
C23_Original == Len(sent) = 2 => sent[2].token # sent[1].token

\* Publish has returned
Published == dpc = "idle" /\ pubOut.kind # "none"

\* the submitToDA calls of this Publish that failed
Failures == { i \in 1..Len(tries) : tries[i] # SubmitOK }

\* C24: a Publish whose submitToDA fails N times (N <= MaxRetries) and then
\* succeeds returns success after exactly N+1 attempts; one whose submitToDA
\* fails MaxRetries+1 times has made exactly MaxRetries+1 attempts and
\* returns an error carrying that count and the error of the last attempt.
C24_AttemptsAndWrappedError ==
    /\ Len(tries) <= MaxRetries + 1
    /\ \A i \in 1..Len(tries) : tries[i] = SubmitOK => i = Len(tries)
    /\ (Published /\ pubOut.kind = "ok") =>
         /\ Len(tries) = Cardinality(Failures) + 1
         /\ Cardinality(Failures) <= MaxRetries
         /\ Last(tries) = SubmitOK
    /\ (Published /\ Cardinality(Failures) = MaxRetries + 1) =>
         /\ Len(tries) = MaxRetries + 1
         /\ pubOut = PubExhausted(MaxRetries + 1, Last(tries))
    /\ (Published /\ pubOut.kind = "exhausted") =>
         Cardinality(Failures) = MaxRetries + 1

\* every attempt of a Publish failed, the last differently from the first
C24_Witness ==
    /\ Published
    /\ cfgMaxRetries = 1
    /\ tries = <<ErrSubmissionFailed, NoEventErr>>
    /\ pubOut = PubExhausted(2, NoEventErr)
    /\ ~cancelled

\* C25: for every configured MaxRetries, 0 included, one Publish makes at
\* most MaxRetries attempts after the first.
C25_Original == Len(tries) <= cfgMaxRetries + 1

\* C26: an attempt whose transaction was mined with a failed status is the
\* last attempt of its Publish.
C26_Original ==
    \A i \in 1..Len(tries) :
        tries[i] = ErrSubmissionFailed => (i = Len(tries) /\ dpc = "idle")

\* C27: one Publish has at most one transaction mined successfully.
C27_Original == accepted <= 1

\* C28: with the context done, the ctx.Err() check at the top of an
\* iteration and the backoff wait start no further submitToDA call: the call
\* returns an error wrapping ctx.Err(), at once or (when the backoff select
\* takes its timer case) at the next check.
C28_HonorsCancellation ==
    /\ [][(cancelled /\ dpc = "check" /\ MoreAttempts(attempt)) =>
             (dpc' = "idle" /\ pubOut' = PubCancelled("on attempt")
              /\ tries' = tries)]_vars
    /\ [][(cancelled /\ dpc = "backoff") =>
             /\ tries' = tries
             /\ \/ dpc' = "idle" /\ pubOut' = PubCancelled("during backoff")
                \/ dpc' = "check" /\ MoreAttempts(attempt')]_vars
    /\ [](pubOut.kind = "cancelled" => cancelled)

\* a Publish cancelled during a backoff wait has returned after one attempt
C28_Witness ==
    /\ Published
    /\ pubOut = PubCancelled("during backoff")
    /\ Len(tries) = 1
    /\ cancelled

\* the worker is inside processTask
Processing ==
    pc \in {"audit_received", "SubmitJob", "GetResult", "Upload", "Mint",
            "AuditPublish", "PublishResult"}

\* the cause the error of processTask wraps
CauseOf(err) == err[3]

\* C29: with the context done during processTask, no stage call succeeds,
\* the task is not counted as completed, and the error processTask returns
\* wraps ctx.Err().
C29_Original ==
    [][(cancelled /\ Processing) =>
          /\ completedTasks' = completedTasks
          /\ \A i \in (Len(calls) + 1)..Len(calls') : ~calls'[i].ok
          /\ \A i \in (Len(reports) + 1)..Len(reports') :
                ~reports'[i].handed
          /\ pc' = "failed" => CauseOf(taskErr') = Canceled]_vars

\* a PublishResult or PublishHealth call that found the context done
Refused(o) == o.ctxDone /\ ~o.handed /\ ~o.delivered /\ o.ret = Canceled

\* C30: a PublishResult or PublishHealth call made with the context done
\* returns an error, takes no sequence number and hands nothing to the
\* transport; the health loop returns only on cancellation and publishes
\* nothing after it has returned.
C30_NothingPublishedAfterCancel ==
    /\ [][cancelled =>
            /\ \A i \in (Len(reports) + 1)..Len(reports') :
                  Refused(reports'[i])
            /\ \A i \in (Len(beats) + 1)..Len(beats') : Refused(beats'[i])
            /\ seqNum' = seqNum]_vars
    /\ [][hlPc = "returned" => (hlPc' = "returned" /\ beats' = beats)]_vars
    /\ [](hlPc = "returned" => cancelled)

\* after cancellation the failure report and a heartbeat were both refused
\* and the health loop has returned
C30_Witness ==
    /\ cancelled
    /\ hlPc = "returned"
    /\ reports # <<>>
    /\ Last(reports).result.status = "failed"
    /\ Refused(Last(reports))
    /\ beats # <<>>
    /\ Refused(Last(beats))

\* C31: when Run has returned, StartSubscription and healthLoop have
\* returned too.
C31_Original == pc = "returned" => (hPc = "done" /\ hlPc = "returned")

\* C32: the sequence numbers of the envelopes one Handler hands to the
\* transport are strictly increasing in the order they are handed over,
\* also when the worker and the healthLoop publish concurrently.
C32_Original ==
    \A i, j \in 1..Len(outbox) : i < j => outbox[i].seq < outbox[j].seq

\* C33: a completed task_result carries the task's own ID, status
\* "completed", the output and tokens_used of the compute result, the
\* content ID returned by Upload, the token ID returned by Mint and the
\* submission ID returned by the audit Publish, each as returned in the run
\* that publishes it.
C33_CompletedResultFields ==
    \A i \in 1..Len(reports) :
        reports[i].result.status = "completed" =>
            LET r == reports[i].result
            IN /\ r.task = cur
               /\ r.output = Output(RetVal("GetResult", dequeued))
               /\ r.tokensUsed = TokensUsed(RetVal("GetResult", dequeued))
               /\ r.storageContentID = RetVal("Upload", dequeued)
               /\ r.inftTokenID = RetVal("Mint", dequeued)
               /\ r.auditSubmissionID =
                      IF \E k \in 1..Len(audits) :
                             /\ audits[k].type = EventTypeJobCompleted
                             /\ audits[k].ok
                      THEN RetVal("AuditPublish", dequeued)
                      ELSE ZeroVal

\* the second run of processTask has handed its completed result over
C33_Witness ==
    /\ dequeued = 2
    /\ reports # <<>>
    /\ Last(reports).result.status = "completed"
    /\ Last(reports).handed
    /\ Last(reports).result.auditSubmissionID # ZeroVal

\* a step that is a call of GetResult
Enters == gpc # "polling" /\ results' = results /\ pollVars' # pollVars

\* C34: GetResult always terminates; a result already cached is returned
\* immediately without polling, otherwise GetResult polls until a result
\* appears, the poll timeout elapses or cancellation fires.
C34_Original ==
    /\ [][(Enters /\ gjob' \in results) =>
             (gpc' = "returned" /\ gout' = JobResult(gjob'))]_vars
    /\ (gpc = "polling") ~> (gpc = "returned")

\* C34 (amended): GetResult always terminates; called with ctx done it
\* returns a cancellation error without looking at the cache; otherwise a
\* cached result is returned immediately without polling, and a call that
\* polls returns the result, a timeout error once the poll timeout has
\* elapsed, or a cancellation error once cancellation has fired.
C34_Amended ==
    /\ [][Enters =>
             /\ cancelled => (gpc' = "returned" /\ gout' = ErrCancelledOnEntry)
             /\ (~cancelled /\ gjob' \in results) =>
                    (gpc' = "returned" /\ gout' = JobResult(gjob'))
             /\ (~cancelled /\ gjob' \notin results) => gpc' = "polling"]_vars
    /\ [][(gpc = "polling" /\ gpc' = "returned") =>
             \/ gout' = JobResult(gjob) /\ gjob \in results
             \/ gout' = ErrPollTimeout /\ elapsed >= PollTicks
             \/ gout' = ErrCancelledPolling /\ cancelled]_vars
    /\ (gpc = "polling") ~> (gpc = "returned")

\* GetResult polled until the deadline and returned the timeout error
C34_Witness ==
    /\ gpc = "returned"
    /\ gout = ErrPollTimeout
    /\ elapsed = PollTicks
    /\ gjob \notin results

\* the call in hand, or the last one made, is an Upload / a Mint
InUpload == cpc # "idle" /\ creq.op = "Upload"

InMint == cpc # "idle" /\ creq.op = "Mint"

AllStepsOk == \A i \in 1..Len(steps) : steps[i].ok

\* C35: Upload attempts the node upload only after the Flow transaction was
\* sent, confirmed and found successful, and returns a content ID only when
\* every step it performed succeeded.
C35_AnchorBeforeNode ==
    InUpload =>
        /\ \A i \in 1..Len(steps) :
              steps[i].step = "node" =>
                  /\ i = 4
                  /\ steps[1] = Step("transact", TRUE)
                  /\ steps[2] = Step("wait", TRUE)
                  /\ steps[3] = Step("receipt", TRUE)
        /\ cret.val # ZeroVal =>
              /\ cpc = "returned"
              /\ cret.err = ""
              /\ AllStepsOk
              /\ Len(steps) = IF nodeEndpoint THEN 4 ELSE 3
        /\ (cpc = "returned" /\ ~AllStepsOk) =>
              (cret.val = ZeroVal /\ cret.err # "")

\* with a node endpoint configured, an Upload whose Flow transaction was
\* reverted has returned
C35_Witness ==
    /\ InUpload
    /\ nodeEndpoint
    /\ cpc = "returned"
    /\ steps = <<Step("transact", TRUE), Step("wait", TRUE),
                 Step("receipt", FALSE)>>
    /\ cret = Ret(ZeroVal, ErrFlowReverted)

\* C36: the content ID Upload returns is the hex form of the SHA-256 digest
\* of the uploaded bytes, the same for every upload of the same bytes
\* whatever the metadata and however often the upload is repeated.
C36_ContentIDFromBytes ==
    /\ \A e \in ids : e.id = Bytes2Hex(Sum256(e.data))
    /\ \A e1, e2 \in ids : e1.data = e2.data => e1.id = e2.id
    /\ (InUpload /\ cret.val # ZeroVal) =>
           cret.val = Bytes2Hex(Sum256(creq.data))

\* the same bytes have been uploaded twice, with different metadata, and
\* the second upload has just returned its content ID
C36_Witness ==
    /\ InUpload
    /\ cpc = "returned"
    /\ cret.val # ZeroVal
    /\ \E e \in ids : e.data = creq.data /\ e.meta # creq.meta

\* the order of Mint's steps
MintOrder == <<"encrypt", "transact", "wait", "receipt", "parse">>

\* C37: Mint encrypts, submits the mint transaction, awaits confirmation
\* and extracts the token ID, in this order, and stops with an error at
\* the first failing step: no transaction is submitted when encryption
\* fails, and no token ID is returned for a reverted receipt or a receipt
\* without a Transfer event.
C37_MintOrder ==
    InMint =>
        /\ Len(steps) <= Len(MintOrder)
        /\ \A i \in 1..Len(steps) :
              /\ steps[i].step = MintOrder[i]
              /\ i < Len(steps) => steps[i].ok
        /\ creq.keyLen # KeySize =>
              \A i \in 1..Len(steps) : steps[i].step # "transact"
        /\ ~AllStepsOk =>
              (cpc = "returned" /\ cret.val = ZeroVal /\ cret.err # "")
        /\ cret.val # ZeroVal =>
              (cpc = "returned" /\ AllStepsOk /\ Len(steps) = Len(MintOrder))

\* a Mint with a 16-byte key has returned the encryption error
C37_Witness ==
    /\ InMint
    /\ cpc = "returned"
    /\ creq.keyLen # KeySize
    /\ steps = <<Step("encrypt", FALSE)>>
    /\ cret = Ret(ZeroVal, ErrMintEncrypt)

\* the tasks dequeued whose run is over
RunsOver == dequeued - Cardinality(active)

\* C38: every dequeued task increments exactly one of completedTasks and
\* failedTasks, exactly once: the two counters always add up to the number
\* of tasks whose processing has finished, neither ever decreases, and
\* completedTasks is incremented only after the completed task_result was
\* published successfully.
C38_CountedOnce ==
    /\ [](/\ completedTasks + failedTasks = finished
          /\ finished = RunsOver
          /\ (WorkerIdle /\ dequeued > 0) =>
                (completedTasks + failedTasks)
                    - (startCounts[1] + startCounts[2]) = 1)
    /\ [][/\ completedTasks' >= completedTasks
          /\ failedTasks' >= failedTasks
          /\ (completedTasks' + failedTasks')
                 - (completedTasks + failedTasks) <= 1
          /\ completedTasks' # completedTasks =>
                /\ reports' # <<>>
                /\ Last(reports').result.status = "completed"
                /\ Last(reports').result.task = cur
                /\ Last(reports').handed
                /\ Last(reports').ret = ""]_vars

\* one task has completed and another has failed
C38_Witness ==
    /\ WorkerIdle
    /\ completedTasks = 1
    /\ failedTasks = 1
    /\ dequeued = 2

\* the discovery call of the resolution that has just returned succeeded
DiscoveryOk ==
    \/ res.out.chain \in {"ok", "empty"}
    \/ res.out.http \in {"ok", "empty"}

\* the list it had in hand has no provider with a non-empty endpoint for
\* the requested model
NoneForModel ==
    \A i \in 1..Len(res.out.list) :
        ~(res.out.list[i].id = res.call.model /\ res.out.list[i].url # "")

\* C39: when discovery succeeds but lists no provider with a non-empty
\* endpoint for the requested model, resolution returns the configured
\* fallback endpoint if one is set and otherwise fails with the no-models
\* error; it never returns the endpoint of a provider of another model.
C39_NoProviderForModel ==
    (res.call.op = "resolveProvider" /\ DiscoveryOk /\ NoneForModel) =>
        /\ IF endpoint # ""
           THEN res.out.kind = "fallback" /\ res.out.url = endpoint
           ELSE /\ res.out.kind = "error"
                /\ res.out.err = ErrNoModels
                /\ res.out.url = ""
        /\ \A i \in 1..Len(res.out.list) :
              res.out.list[i].id # res.call.model =>
                  res.out.url # res.out.list[i].url

\* discovery listed a provider of another model only, and the resolution
\* without a fallback endpoint failed
C39_Witness ==
    /\ res.call.op = "resolveProvider"
    /\ res.out.chain = "ok"
    /\ res.out.list # <<>>
    /\ NoneForModel
    /\ endpoint = ""
    /\ res.out.kind = "error"
    /\ res.out.err = ErrNoModels

\* C40: once the cancellation signal has fired, Run dequeues no further
\* task, even when tasks are still queued, and does not start processing
\* one.
C40_Original ==
    [][cancelled => (dequeued' = dequeued /\ pc' # "audit_received")]_vars

====
